---- MODULE Spec2Model ----
(***************************************************************************)
(* State-machine model of the streaming SAX parser of                      *)
(* packages/sax/src/ts/parser.ts (class Parser).  Strings are sequences of *)
(* one-character strings; the handler table is observed as the sequence    *)
(* `events' of event records.                                              *)
(***************************************************************************)
EXTENDS Integers, Sequences, FiniteSets, TLC

(***************************************************************************)
(* Bounds of the model.                                                    *)
(***************************************************************************)
\* longest chunk handed to one write call
MaxChunk == 3
\* depth of nested write calls at which the engine's call stack is exhausted
MaxCallDepth == 4
\* number of reset() calls in one behaviour
MaxResets == 1
\* number of flush() calls in one session
MaxFlushes == 1

(***************************************************************************)
(* Program constants.                                                      *)
(***************************************************************************)
MAX_BUFFER_LENGTH == 65536

S_xml == <<"x","m","l">>
S_xmlns == <<"x","m","l","n","s">>
\* NAMESPACES.xml = "http://www.w3.org/XML/1998/namespace"
NS_xml == <<"h","t","t","p",":","/","/","w","w","w",".","w","3",".","o","r","g",
            "/","X","M","L","/","1","9","9","8","/","n","a","m","e","s","p","a","c","e">>
\* NAMESPACES.xmlns = "http://www.w3.org/2000/xmlns/"
NS_xmlns == <<"h","t","t","p",":","/","/","w","w","w",".","w","3",".","o","r","g",
              "/","2","0","0","0","/","x","m","l","n","s","/">>

BUFFERS == <<"attributeName", "attributeValue", "cdata", "comment", "doctype",
             "entity", "piBody", "piName", "sgmlDeclaration", "tagName", "textNode">>

(***************************************************************************)
(* Character classes (constants.ts REGEX, zig/utils.zig), ASCII part.      *)
(***************************************************************************)
LowerLetters == <<"a","b","c","d","e","f","g","h","i","j","k","l","m",
                  "n","o","p","q","r","s","t","u","v","w","x","y","z">>
UpperLetters == <<"A","B","C","D","E","F","G","H","I","J","K","L","M",
                  "N","O","P","Q","R","S","T","U","V","W","X","Y","Z">>
Letters == {LowerLetters[i] : i \in 1..26} \cup {UpperLetters[i] : i \in 1..26}
DecDigits == <<"0","1","2","3","4","5","6","7","8","9">>
Digits == {DecDigits[i] : i \in 1..10}

isWhitespace(c) == c \in {" ", "\n", "\t", "\r"}
isQuote(c) == c \in {"\"", "'"}
isAttributeEnd(c) == c = ">" \/ isWhitespace(c)
NAME_START(c) == c \in Letters \cup {":", "_"}
NAME_BODY(c) == NAME_START(c) \/ c \in Digits \cup {"-", "."}
ENTITY_START(c) == NAME_START(c) \/ c = "#"
ENTITY_BODY(c) == NAME_BODY(c) \/ c = "#"

toLowerCaseChar(c) ==
  IF \E i \in 1..26 : UpperLetters[i] = c
  THEN LowerLetters[CHOOSE i \in 1..26 : UpperLetters[i] = c] ELSE c
toUpperCaseChar(c) ==
  IF \E i \in 1..26 : LowerLetters[i] = c
  THEN UpperLetters[CHOOSE i \in 1..26 : LowerLetters[i] = c] ELSE c
toLowerCase(s) == [i \in 1..Len(s) |-> toLowerCaseChar(s[i])]
toUpperCase(s) == [i \in 1..Len(s) |-> toUpperCaseChar(s[i])]

(***************************************************************************)
(* Text options (ts/utils.ts applyTextOptions).                            *)
(***************************************************************************)
trim(s) ==
  LET keep == {i \in 1..Len(s) : ~isWhitespace(s[i])}
  IN IF keep = {} THEN <<>>
     ELSE SubSeq(s, CHOOSE i \in keep : \A j \in keep : i <= j,
                    CHOOSE i \in keep : \A j \in keep : j <= i)

RECURSIVE collapseFrom(_, _)
collapseFrom(s, i) ==
  IF i > Len(s) THEN <<>>
  ELSE IF ~isWhitespace(s[i]) THEN <<s[i]>> \o collapseFrom(s, i + 1)
  ELSE IF i > 1 /\ isWhitespace(s[i - 1]) THEN collapseFrom(s, i + 1)
  ELSE <<" ">> \o collapseFrom(s, i + 1)
\* text.replace(/\s+/g, " ")
collapseWhitespace(s) == collapseFrom(s, 1)

VARIABLES
  options,      \* Parser.options (fixed at construction)
  ENTITIES,     \* the active entity table, a sequence of <<name, replacement>>
  p,            \* the fields of the Parser instance and the handler log
  input,        \* characters the feeder has not yet offered
  fed,          \* characters offered to write so far, in order
  lastCall,     \* the last API call and how it came back
  raisedEver,   \* some write call of this session has raised
  flushes,      \* number of flush() calls made in this session
  reported,     \* an onError was delivered and the caller has not cleared the error
  resets,       \* number of reset() calls made
  decoder,      \* Parser.decoder (static): the bytes of an unfinished UTF-8 sequence
  peer,         \* a second Parser instance and the bytes not yet offered to it
  alone         \* each instance as it is after its own writes, made with no other
                \* instance in the program

vars == <<options, ENTITIES, p, input, fed, lastCall, raisedEver, flushes,
          reported, resets, decoder, peer, alone>>

applyTextOptions(text) ==
  LET normalized(t) == IF options.normalize THEN collapseWhitespace(t) ELSE t
  IN normalized(IF options.trim THEN trim(text) ELSE text)

applyCaseTransform(name) ==
  IF options.caseTransform = "lowercase" THEN toLowerCase(name)
  ELSE IF options.caseTransform = "uppercase" THEN toUpperCase(name)
  ELSE name

(***************************************************************************)
(* Values.                                                                 *)
(***************************************************************************)
NoError == [isNull |-> TRUE, message |-> "", detail |-> <<>>, line |-> 0, column |-> 0]
NoTag == [isNull |-> TRUE, name |-> <<>>, attributes |-> <<>>, isSelfClosing |-> FALSE,
          ns |-> -1, prefix |-> <<>>, localName |-> <<>>, uri |-> <<>>]
Event(type) == [type |-> type, message |-> "", name |-> <<>>, value |-> <<>>,
                attributes |-> <<>>, isSelfClosing |-> FALSE, prefix |-> <<>>,
                localName |-> <<>>, uri |-> <<>>, line |-> 0, column |-> 0]
Attr(name, value, prefix, localName, uri) ==
  [name |-> name, value |-> value, prefix |-> prefix, localName |-> localName, uri |-> uri]

\* the parser as the constructor and reset() leave it; ns objects live in
\* nsHeap, object 0 is the constant NAMESPACES and -1 is undefined
NewParser ==
  [error |-> NoError, tag |-> NoTag, tags |-> <<>>,
   column |-> 0, line |-> 0, position |-> 0, startTagPosition |-> 0,
   attributeList |-> <<>>, bufferCheckPosition |-> MAX_BUFFER_LENGTH,
   hasDoctype |-> FALSE, hasSeenRoot |-> FALSE, isEnded |-> FALSE, isRootClosed |-> FALSE,
   ns |-> IF options.namespaces THEN 1 ELSE -1,
   nsHeap |-> IF options.namespaces THEN <<[parent |-> 0, own |-> <<>>]>> ELSE <<>>,
   state |-> "BEGIN",
   attributeName |-> <<>>, attributeValue |-> <<>>, cdata |-> <<>>, char |-> "",
   comment |-> <<>>, doctype |-> <<>>, entity |-> <<>>, piBody |-> <<>>, piName |-> <<>>,
   quoteChar |-> "", sgmlDeclaration |-> <<>>, tagName |-> <<>>, textNode |-> <<>>,
   events |-> <<[Event("onReady") EXCEPT !.type = "onReady"]>>,
   thrown |-> "none"]

(***************************************************************************)
(* Event dispatch and the soft-error routine.                              *)
(***************************************************************************)
emit(q, ev) == [q EXCEPT !.events = Append(@, ev)]

closeText(q) ==
  LET deliver(t) ==
        [(IF t # <<>> THEN emit(q, [Event("onText") EXCEPT !.value = t]) ELSE q)
           EXCEPT !.textNode = <<>>]
  IN deliver(applyTextOptions(q.textNode))

emitNode(q, ev) == emit(IF q.textNode # <<>> THEN closeText(q) ELSE q, ev)

\* fail without `this.error = error': the diagnostic is reported, not latched
failWithoutLatch(q, message, detail) ==
  LET report(q1) ==
        emit(q1, [Event("onError") EXCEPT !.message = message, !.name = detail,
                                          !.line = q1.line, !.column = q1.column])
  IN report(closeText(q))

failWith(q, message, detail) ==
  LET report(q1) ==
        emit([q1 EXCEPT !.error = [isNull |-> FALSE, message |-> message,
                                   detail |-> detail, line |-> q1.line,
                                   column |-> q1.column]],
             [Event("onError") EXCEPT !.message = message, !.name = detail,
                                      !.line = q1.line, !.column = q1.column])
  IN report(closeText(q))

fail(q, message) == failWith(q, message, <<>>)

(***************************************************************************)
(* Namespace objects: a prototype chain of objects with own bindings.      *)
(***************************************************************************)
\* property names that every object inherits from Object.prototype; the
\* root map is Object.create(NAMESPACES) and NAMESPACES is an object literal
INHERITED ==
  { <<"c","o","n","s","t","r","u","c","t","o","r">>,
    <<"t","o","S","t","r","i","n","g">>,
    <<"v","a","l","u","e","O","f">> }

\* the value of an inherited property (a function), as a text of one item
inherited(prefix) == <<"Object.prototype.">> \o prefix

RECURSIVE nsLookup(_, _, _)
\* tag.ns[prefix] ?? ""
nsLookup(heap, id, prefix) ==
  IF id < 0 THEN <<>>
  ELSE IF id = 0
  THEN IF prefix = S_xml THEN NS_xml ELSE IF prefix = S_xmlns THEN NS_xmlns
       ELSE IF prefix \in INHERITED THEN inherited(prefix) ELSE <<>>
  ELSE LET own == heap[id].own
           hit == {i \in 1..Len(own) : own[i][1] = prefix}
       IN IF hit # {} THEN own[CHOOSE i \in hit : TRUE][2]
          ELSE nsLookup(heap, heap[id].parent, prefix)

\* obj[key] = value on an insertion-ordered list of <<key, value>>
setKey(list, key, value) ==
  IF \E i \in 1..Len(list) : list[i][1] = key
  THEN [i \in 1..Len(list) |-> IF list[i][1] = key THEN <<key, value>> ELSE list[i]]
  ELSE Append(list, <<key, value>>)

\* tag.attributes[name] = attribute
setAttribute(attributes, a) ==
  IF \E i \in 1..Len(attributes) : attributes[i].name = a.name
  THEN [i \in 1..Len(attributes) |-> IF attributes[i].name = a.name THEN a ELSE attributes[i]]
  ELSE Append(attributes, a)

\* (this.tags.at(-1) || this).ns
parentNs(q) == IF Len(q.tags) > 0 THEN q.tags[Len(q.tags)].ns ELSE q.ns

indexOfColon(name) ==
  LET hit == {i \in 1..Len(name) : name[i] = ":"}
  IN IF hit = {} THEN 0 ELSE CHOOSE i \in hit : \A j \in hit : i <= j

getQName(name, isAttribute) ==
  IF isAttribute /\ name = S_xmlns THEN [prefix |-> S_xmlns, localName |-> <<>>]
  ELSE IF indexOfColon(name) = 0 THEN [prefix |-> <<>>, localName |-> name]
  ELSE [prefix |-> SubSeq(name, 1, indexOfColon(name) - 1),
        localName |-> SubSeq(name, indexOfColon(name) + 1, Len(name))]

tagEvent(type, tag) ==
  [Event(type) EXCEPT !.name = tag.name, !.attributes = tag.attributes,
                      !.isSelfClosing = tag.isSelfClosing, !.prefix = tag.prefix,
                      !.localName = tag.localName, !.uri = tag.uri]
attributeEvent(a) ==
  [Event("onAttribute") EXCEPT !.name = a.name, !.value = a.value, !.prefix = a.prefix,
                               !.localName = a.localName, !.uri = a.uri]
namespaceEvent(type, binding) ==
  [Event(type) EXCEPT !.prefix = binding[1], !.uri = binding[2]]

RECURSIVE emitAll(_, _, _, _)
\* list.forEach(x => this.emitNode(type, x)) for a list of bindings
emitAll(q, type, list, i) ==
  IF i > Len(list) THEN q
  ELSE emitAll(emitNode(q, namespaceEvent(type, list[i])), type, list, i + 1)

(***************************************************************************)
(* Tag handling.                                                           *)
(***************************************************************************)
newTag(q) ==
  LET name == IF ~options.strict THEN applyCaseTransform(q.tagName) ELSE q.tagName
      tag == [NoTag EXCEPT !.isNull = FALSE, !.name = name,
                           !.ns = IF options.namespaces THEN parentNs(q) ELSE -1]
      q1 == [q EXCEPT !.tagName = name, !.tag = tag, !.attributeList = <<>>]
  IN emitNode(q1, [Event("onOpenTagStart") EXCEPT !.name = name])

processAttribute(q) ==
  LET name == IF ~options.strict THEN applyCaseTransform(q.attributeName)
              ELSE q.attributeName
      q0 == [q EXCEPT !.attributeName = name]
      duplicate == \/ \E i \in 1..Len(q.attributeList) : q.attributeList[i][1] = name
                   \/ \E i \in 1..Len(q.tag.attributes) : q.tag.attributes[i].name = name
      qn == getQName(name, TRUE)
      bound ==
        IF qn.prefix # S_xmlns THEN q0
        ELSE IF qn.localName = S_xml /\ q0.attributeValue # NS_xmlns
        THEN failWith(q0, "xml: prefix must be bound to", q0.attributeValue)
        ELSE IF qn.localName = S_xmlns /\ q0.attributeValue # NS_xmlns
        THEN failWith(q0, "xmlns: prefix must be bound to", q0.attributeValue)
        ELSE LET fresh == q0.tag.ns = parentNs(q0)
                 heap1 == IF fresh
                          THEN Append(q0.nsHeap, [parent |-> parentNs(q0), own |-> <<>>])
                          ELSE q0.nsHeap
                 id == IF fresh THEN Len(heap1) ELSE q0.tag.ns
             IN [q0 EXCEPT !.tag.ns = id,
                           !.nsHeap = [heap1 EXCEPT ![id].own =
                                          setKey(@, qn.localName, q0.attributeValue)]]
      stored ==
        IF options.namespaces
        THEN [bound EXCEPT !.attributeList = Append(@, <<name, q0.attributeValue>>)]
        ELSE LET a == Attr(name, q0.attributeValue, <<>>, <<>>, <<>>)
             IN emitNode([q0 EXCEPT !.tag.attributes = setAttribute(@, a)],
                         attributeEvent(a))
  IN IF duplicate THEN [q0 EXCEPT !.attributeName = <<>>, !.attributeValue = <<>>]
     ELSE [stored EXCEPT !.attributeName = <<>>, !.attributeValue = <<>>]

RECURSIVE deferredAttributes(_, _)
\* openTag: for (const [name, value] of this.attributeList) ...
deferredAttributes(q, i) ==
  IF i > Len(q.attributeList) THEN q
  ELSE LET name == q.attributeList[i][1]
           value == q.attributeList[i][2]
           qn == getQName(name, TRUE)
           uri == IF qn.prefix # <<>> THEN nsLookup(q.nsHeap, q.tag.ns, qn.prefix) ELSE <<>>
           unbound == qn.prefix # <<>> /\ qn.prefix # S_xmlns /\ uri = <<>>
           q1 == IF unbound THEN failWith(q, "Unbound namespace prefix", qn.prefix) ELSE q
           a == Attr(name, value, qn.prefix, qn.localName,
                     IF unbound THEN qn.prefix ELSE uri)
           q2 == emitNode([q1 EXCEPT !.tag.attributes = setAttribute(@, a)],
                          attributeEvent(a))
       IN deferredAttributes(q2, i + 1)

openTagNamespaces(q) ==
  LET qn == getQName(q.tagName, FALSE)
      uri == nsLookup(q.nsHeap, q.tag.ns, qn.prefix)
      unbound == qn.prefix # <<>> /\ uri = <<>>
      named == [q EXCEPT !.tag.prefix = qn.prefix, !.tag.localName = qn.localName,
                         !.tag.uri = uri]
      attributes(q2) ==
        [deferredAttributes(
           IF q2.tag.ns >= 0 /\ parentNs(q2) # q2.tag.ns
           THEN emitAll(q2, "onOpenNamespace", q2.nsHeap[q2.tag.ns].own, 1)
           ELSE q2, 1)
           EXCEPT !.attributeList = <<>>]
  IN attributes(IF unbound
                THEN [failWith(named, "Unbound namespace prefix", q.tagName)
                        EXCEPT !.tag.uri = qn.prefix]
                ELSE named)

\* openTag emitting onOpenTag before the deferred attributes are processed
openTagEarly(q, selfClosing) ==
  LET finish(q4) ==
        [(IF ~selfClosing
          THEN [q4 EXCEPT !.state = "TEXT", !.tag = NoTag, !.tagName = <<>>]
          ELSE q4)
           EXCEPT !.attributeName = <<>>, !.attributeValue = <<>>, !.attributeList = <<>>]
      push(q3) == finish([q3 EXCEPT !.tags = Append(@, q3.tag)])
      attributes(q2) == push(IF options.namespaces THEN openTagNamespaces(q2) ELSE q2)
      announce(q1) == attributes(emitNode(q1, tagEvent("onOpenTag", q1.tag)))
  IN announce([q EXCEPT !.tag.isSelfClosing = selfClosing, !.hasSeenRoot = TRUE])

openTag(q, selfClosing) ==
  LET finish(q4) ==
        [(IF ~selfClosing
          THEN [q4 EXCEPT !.state = "TEXT", !.tag = NoTag, !.tagName = <<>>]
          ELSE q4)
           EXCEPT !.attributeName = <<>>, !.attributeValue = <<>>, !.attributeList = <<>>]
      announce(q3) == finish(emitNode(q3, tagEvent("onOpenTag", q3.tag)))
      push(q2) == announce([q2 EXCEPT !.tags = Append(@, q2.tag)])
  IN push([(IF options.namespaces THEN openTagNamespaces(q) ELSE q)
             EXCEPT !.tag.isSelfClosing = selfClosing, !.hasSeenRoot = TRUE])

\* closeTag: the index of the open element the close tag is compared with
\* (0 when the scan `while (t--)' runs off the bottom of the stack)
closeTarget(q, closeTo) ==
  LET hit == {i \in 1..Len(q.tags) : q.tags[i].name = closeTo}
  IN IF hit = {} THEN 0 ELSE CHOOSE i \in hit : \A j \in hit : j <= i

RECURSIVE failTimes(_, _, _)
failTimes(q, message, n) ==
  IF n = 0 THEN q ELSE failTimes(fail(q, message), message, n - 1)

\* the popping of a tag that reports the bindings in scope whether or not the
\* element introduced them
RECURSIVE popTagsUnbindingAll(_, _)
popTagsUnbindingAll(q, t) ==
  IF Len(q.tags) < t THEN q
  ELSE LET tag == q.tags[Len(q.tags)]
           unbind(q2) ==
             IF options.namespaces /\ tag.ns > 0
             THEN emitAll(q2, "onCloseNamespace", q2.nsHeap[tag.ns].own, 1)
             ELSE q2
       IN popTagsUnbindingAll(
            unbind(emitNode([q EXCEPT !.tags = SubSeq(@, 1, Len(@) - 1), !.tag = tag,
                                      !.tagName = tag.name],
                            [Event("onCloseTag") EXCEPT !.name = tag.name])), t)

RECURSIVE popTagsAsNamed(_, _)
\* popTags reporting every popped element under the name the close tag gave
popTagsAsNamed(q, t) ==
  IF Len(q.tags) < t THEN q
  ELSE LET tag == q.tags[Len(q.tags)]
           unbind(q2) ==
             IF options.namespaces /\ tag.ns # parentNs(q2)
             THEN emitAll(q2, "onCloseNamespace", q2.nsHeap[tag.ns].own, 1)
             ELSE q2
       IN popTagsAsNamed(
            unbind(emitNode([q EXCEPT !.tags = SubSeq(@, 1, Len(@) - 1), !.tag = tag],
                            [Event("onCloseTag") EXCEPT !.name = q.tagName])), t)

RECURSIVE popTags(_, _)
\* closeTag: while (s-- > t) { pop, onCloseTag, onCloseNamespace... }
popTags(q, t) ==
  IF Len(q.tags) < t THEN q
  ELSE LET tag == q.tags[Len(q.tags)]
           unbind(q2) ==
             IF options.namespaces /\ tag.ns # parentNs(q2)
             THEN emitAll(q2, "onCloseNamespace", q2.nsHeap[tag.ns].own, 1)
             ELSE q2
       IN popTags(
            unbind(emitNode([q EXCEPT !.tags = SubSeq(@, 1, Len(@) - 1), !.tag = tag,
                                      !.tagName = tag.name],
                            [Event("onCloseTag") EXCEPT !.name = tag.name])), t)

\* closeTag: the name the scan of the stack looks for
closeTo(q) == q.tagName

closeTag(q) ==
  IF q.tagName = <<>>
  THEN [fail(q, "Weird empty close tag.")
          EXCEPT !.textNode = @ \o <<"<", "/", ">">>, !.state = "TEXT"]
  ELSE LET unmatched(q2) ==
             [q2 EXCEPT !.textNode = @ \o <<"<", "/">> \o q2.tagName \o <<">">>,
                        !.state = "TEXT"]
           closed(q2, t) ==
             [q2 EXCEPT !.isRootClosed = IF t = 1 THEN TRUE ELSE @,
                        !.tagName = <<>>, !.attributeValue = <<>>,
                        !.attributeName = <<>>, !.attributeList = <<>>,
                        !.state = "TEXT"]
           scanned(q1, t) ==
             IF t = 0
             THEN unmatched(failWith(q1, "Unmatched closing tag", q1.tagName))
             ELSE closed(popTags([q1 EXCEPT !.tagName = closeTo(q)], t), t)
           scan(q0, t) ==
             scanned(failTimes(q0, "Unexpected close tag", Len(q0.tags) - t), t)
           transformed(q0) == scan(q0, closeTarget(q0, closeTo(q)))
       IN transformed(IF ~options.strict
                      THEN [q EXCEPT !.tagName = applyCaseTransform(@)] ELSE q)

(***************************************************************************)
(* Entity resolution (Parser.parseEntity, zig/utils.zig parseEntity).      *)
(***************************************************************************)
XML_PREDEFINED_ENTITIES ==
  << <<<<"a","m","p">>, <<"&">>>>, <<<<"a","p","o","s">>, <<"'">>>>,
     <<<<"g","t">>, <<">">>>>, <<<<"l","t">>, <<"<">>>>,
     <<<<"q","u","o","t">>, <<"\"">>>> >>

\* the part of the generated HTML table the model's documents refer to
HTML_NAMED_CHARACTER_ENTITIES ==
  XML_PREDEFINED_ENTITIES \o
  << <<<<"c","o","p","y">>, <<"U+169">>>>, <<<<"n","b","s","p">>, <<"U+160">>>> >>

\* Object.values(XML_PREDEFINED_ENTITIES).includes(text)
isPredefinedValue(text) ==
  \E i \in 1..Len(XML_PREDEFINED_ENTITIES) : XML_PREDEFINED_ENTITIES[i][2] = text

hasEntity(name) == \E i \in 1..Len(ENTITIES) : ENTITIES[i][1] = name
entityValue(name) ==
  ENTITIES[CHOOSE i \in 1..Len(ENTITIES) :
             /\ ENTITIES[i][1] = name
             /\ \A j \in 1..Len(ENTITIES) : ENTITIES[j][1] = name => j <= i][2]

\* code points 32..126
Printable ==
  <<" ","!","\"","#","$","%","&","'","(",")","*","+",",","-",".","/",
    "0","1","2","3","4","5","6","7","8","9",":",";","<","=",">","?",
    "@","A","B","C","D","E","F","G","H","I","J","K","L","M","N","O",
    "P","Q","R","S","T","U","V","W","X","Y","Z","[","\\","]","^","_",
    "U+96","a","b","c","d","e","f","g","h","i","j","k","l","m","n","o",
    "p","q","r","s","t","u","v","w","x","y","z","{","|","}","~">>

\* String.fromCodePoint(n), one model character per code point
fromCodePoint(n) ==
  IF n >= 32 /\ n <= 126 THEN Printable[n - 31]
  ELSE IF n = 10 THEN "\n" ELSE IF n = 9 THEN "\t" ELSE IF n = 13 THEN "\r"
  ELSE "U+" \o ToString(n)

\* zig PARSE_ERROR is the u32 0xFFFFFFFF; a wasm i32 result reaches JavaScript as
\* a signed 32-bit number, so the caller sees -1
PARSE_ERROR == -1

charToDigit(c, base) ==
  LET dec == {i \in 1..10 : DecDigits[i] = c}
      low == {i \in 1..26 : LowerLetters[i] = c}
      upp == {i \in 1..26 : UpperLetters[i] = c}
      v == IF dec # {} THEN (CHOOSE i \in dec : TRUE) - 1
           ELSE IF low # {} THEN (CHOOSE i \in low : TRUE) + 9
           ELSE IF upp # {} THEN (CHOOSE i \in upp : TRUE) + 9
           ELSE base
  IN IF v < base THEN v ELSE -1

RECURSIVE accumulate(_, _, _, _)
\* std.fmt.parseInt(u21, ...) digit loop: -1 on a bad digit or on overflow
accumulate(digits, i, base, acc) ==
  IF i > Len(digits) THEN acc
  ELSE IF digits[i] = "_" THEN accumulate(digits, i + 1, base, acc)
  ELSE IF charToDigit(digits[i], base) < 0 THEN -1
  ELSE IF acc * base + charToDigit(digits[i], base) > 2097151 THEN -1
  ELSE accumulate(digits, i + 1, base, acc * base + charToDigit(digits[i], base))

parseInt(slice, base) ==
  IF slice = <<>> THEN -1
  ELSE LET signed == slice[1] \in {"+", "-"}
           digits == IF signed THEN Tail(slice) ELSE slice
           value == IF digits = <<>> \/ digits[1] = "_" \/ digits[Len(digits)] = "_"
                    THEN -1 ELSE accumulate(digits, 1, base, 0)
       IN IF slice[1] = "-" /\ value > 0 THEN -1 ELSE value

utf8ValidCodepoint(n) == n >= 0 /\ n <= 1114111 /\ ~(n >= 55296 /\ n <= 57343)

wasmParseEntity(raw) ==
  IF raw = <<>> \/ raw[1] # "#" THEN PARSE_ERROR
  ELSE LET rest == Tail(raw)
           hex == rest # <<>> /\ rest[1] \in {"x", "X"}
           slice == IF hex THEN Tail(rest) ELSE rest
           codepoint == parseInt(slice, IF hex THEN 16 ELSE 10)
       IN IF hex /\ slice = <<>> THEN PARSE_ERROR
          ELSE IF codepoint < 0 \/ ~utf8ValidCodepoint(codepoint) THEN PARSE_ERROR
          ELSE codepoint

\* String.fromCodePoint throws a RangeError outside 0..0x10FFFF
isCodePoint(n) == n >= 0 /\ n <= 1114111

\* returns the parser (a failed lookup reports a soft error) and the text.
\* The sentinel test `codePoint !== 4294967295' passes for every value the
\* wasm call can return, so a failed numeric parse reaches fromCodePoint.
parseEntity(q) ==
  LET raw == q.entity
      numeric(code) ==
        IF isCodePoint(code) THEN [q |-> q, text |-> <<fromCodePoint(code)>>]
        ELSE [q |-> [q EXCEPT !.thrown = "range"], text |-> <<>>]
  IN IF hasEntity(raw) THEN [q |-> q, text |-> entityValue(raw)]
     ELSE IF hasEntity(toLowerCase(raw)) THEN [q |-> q, text |-> entityValue(toLowerCase(raw))]
     ELSE IF raw # <<>> /\ raw[1] = "#" THEN numeric(wasmParseEntity(raw))
     ELSE [q |-> fail(q, "Invalid character entity"), text |-> <<"&">> \o raw \o <<";">>]

(***************************************************************************)
(* Buffer length policy.                                                   *)
(***************************************************************************)
RECURSIVE checkBuffers(_, _, _)
checkBuffers(q, i, maxActual) ==
  IF i > Len(BUFFERS)
  THEN [q EXCEPT !.bufferCheckPosition = MAX_BUFFER_LENGTH - maxActual + q.position]
  ELSE LET buffer == BUFFERS[i]
           len == Len(q[buffer])
           threshold == IF MAX_BUFFER_LENGTH > 10 THEN MAX_BUFFER_LENGTH ELSE 10
       IN checkBuffers(IF len <= threshold THEN q
                       ELSE IF buffer = "textNode" THEN closeText(q)
                       ELSE IF buffer = "cdata"
                       THEN [emitNode(q, [Event("onCdata") EXCEPT !.value = q.cdata])
                               EXCEPT !.cdata = <<>>]
                       ELSE failWith(q, "Max buffer length exceeded", <<buffer>>),
                       i + 1, IF len > maxActual THEN len ELSE maxActual)

RECURSIVE checkBuffersReporting(_, _, _)
\* the check reporting an overlong cdata as it reports the other buffers
checkBuffersReporting(q, i, maxActual) ==
  IF i > Len(BUFFERS)
  THEN [q EXCEPT !.bufferCheckPosition = MAX_BUFFER_LENGTH - maxActual + q.position]
  ELSE LET buffer == BUFFERS[i]
           len == Len(q[buffer])
           threshold == IF MAX_BUFFER_LENGTH > 10 THEN MAX_BUFFER_LENGTH ELSE 10
       IN checkBuffersReporting(IF len <= threshold THEN q
                                ELSE IF buffer = "textNode" THEN closeText(q)
                                ELSE failWith(q, "Max buffer length exceeded", <<buffer>>),
                                i + 1, IF len > maxActual THEN len ELSE maxActual)

checkBufferLengthReporting(q) == checkBuffersReporting(q, 1, 0)

checkBufferLength(q) == checkBuffers(q, 1, 0)

\* the end of write delivering the text read so far, as flush does
afterLoopClosingText(q) ==
  closeText(IF q.position >= q.bufferCheckPosition THEN checkBufferLength(q) ELSE q)

\* the end of write, after the character loop
afterLoop(q) ==
  IF q.position >= q.bufferCheckPosition THEN checkBufferLength(q) ELSE q

(***************************************************************************)
(* Position tracking.                                                      *)
(***************************************************************************)
track(q, c) ==
  IF ~options.trackPosition THEN q
  ELSE IF c = "\n" THEN [q EXCEPT !.position = @ + 1, !.line = @ + 1, !.column = 0]
  ELSE [q EXCEPT !.position = @ + 1, !.column = @ + 1]

RECURSIVE trackRun(_, _, _, _)
\* the characters chunk[from..to] read by an inner scanning loop
trackRun(q, chunk, from, to) ==
  IF from > to THEN q ELSE trackRun(track(q, chunk[from]), chunk, from + 1, to)

beginWhitespace(q, c) ==
  IF c = "<" THEN [q EXCEPT !.state = "OPEN_WAKA", !.startTagPosition = q.position]
  ELSE IF ~isWhitespace(c)
  THEN [fail(q, "Non-whitespace before first tag.")
          EXCEPT !.textNode = <<c>>, !.state = "TEXT"]
  ELSE q

(***************************************************************************)
(* The character loop of write: one operator per case of the switch.       *)
(* Each takes the parser after `this.char = char' and position tracking.   *)
(***************************************************************************)
BOM == "U+65279"

BEGIN(q, c) ==
  LET q1 == [q EXCEPT !.state = "BEGIN_WHITESPACE"]
  IN IF c = BOM THEN q1 ELSE beginWhitespace(q1, c)

\* case State.TEXT with "<" opening markup wherever it stands
textTailOpening(q, c) ==
  IF c = "<"
  THEN [q EXCEPT !.state = "OPEN_WAKA", !.startTagPosition = q.position]
  ELSE LET buffer(q1) ==
             IF c = "&" THEN [q1 EXCEPT !.state = "TEXT_ENTITY"]
             ELSE IF c = "" THEN q1
             ELSE [q1 EXCEPT !.textNode = Append(@, c)]
       IN buffer(IF ~isWhitespace(c) /\ (~q.hasSeenRoot \/ q.isRootClosed)
                 THEN fail(q, "Text data outside of root node.") ELSE q)

\* case State.TEXT after the scanning loop: c is "" at the end of the chunk
textTail(q, c) ==
  IF c = "<" /\ ~(q.hasSeenRoot /\ q.isRootClosed /\ ~options.strict)
  THEN [q EXCEPT !.state = "OPEN_WAKA", !.startTagPosition = q.position]
  ELSE LET buffer(q1) ==
             IF c = "&" THEN [q1 EXCEPT !.state = "TEXT_ENTITY"]
             ELSE IF c = "" THEN q1
             ELSE [q1 EXCEPT !.textNode = Append(@, c)]
       IN buffer(IF ~isWhitespace(c) /\ (~q.hasSeenRoot \/ q.isRootClosed)
                 THEN fail(q, "Text data outside of root node.") ELSE q)

\* first index in from..Len(chunk) holding one of stops, else Len(chunk) + 1
scanTo(chunk, from, stops) ==
  LET hit == {j \in from..Len(chunk) : chunk[j] \in stops}
  IN IF hit = {} THEN Len(chunk) + 1 ELSE CHOOSE j \in hit : \A k \in hit : j <= k

\* case State.TEXT: returns the parser and the index of the next unread char
TEXT(q, chunk, i) ==
  IF q.hasSeenRoot /\ ~q.isRootClosed
  THEN LET j == scanTo(chunk, i, {"<", "&"})
           last == IF j > Len(chunk) THEN Len(chunk) ELSE j
           scanned(q1) == [q1 EXCEPT !.textNode = @ \o SubSeq(chunk, i, j - 1)]
       IN [q |-> textTail(scanned(trackRun(q, chunk, i + 1, last)),
                          IF j > Len(chunk) THEN "" ELSE chunk[j]),
           next |-> j + 1]
  ELSE [q |-> textTail(q, chunk[i]), next |-> i + 1]

OPEN_WAKA(q, c) ==
  IF c = "!" THEN [q EXCEPT !.state = "SGML_DECLARATION", !.sgmlDeclaration = <<>>]
  ELSE IF isWhitespace(c) THEN q
  ELSE IF NAME_START(c) THEN [q EXCEPT !.state = "OPEN_TAG", !.tagName = <<c>>]
  ELSE IF c = "/" THEN [q EXCEPT !.state = "CLOSE_TAG", !.tagName = <<>>]
  ELSE IF c = "?"
  THEN [q EXCEPT !.state = "PROCESSING_INSTRUCTION", !.piName = <<>>, !.piBody = <<>>]
  ELSE LET pad(q1) == IF q1.startTagPosition + 1 < q1.position
                      THEN [k \in 1..(q1.position - q1.startTagPosition) |-> " "]
                      ELSE <<>>
           asText(q1) ==
             [q1 EXCEPT !.textNode = @ \o pad(q1) \o <<"<", c>>, !.state = "TEXT"]
       IN asText(fail(q, "Unencoded <"))

S_CDATA == <<"[","C","D","A","T","A","[">>
S_DOCTYPE == <<"D","O","C","T","Y","P","E">>

SGML_DECLARATION(q, c) ==
  LET decl == Append(q.sgmlDeclaration, c)
  IN IF decl = <<"-", "-">>
     THEN [q EXCEPT !.state = "COMMENT", !.comment = <<>>, !.sgmlDeclaration = <<>>]
     ELSE IF q.doctype # <<>> /\ ~q.hasDoctype /\ q.sgmlDeclaration # <<>>
     THEN [q EXCEPT !.state = "DOCTYPE_DTD",
                    !.doctype = @ \o <<"<", "!">> \o decl, !.sgmlDeclaration = <<>>]
     ELSE IF toUpperCase(decl) = S_CDATA
     THEN [emitNode(q, Event("onOpenCdata"))
             EXCEPT !.state = "CDATA", !.sgmlDeclaration = <<>>, !.cdata = <<>>]
     ELSE IF toUpperCase(decl) = S_DOCTYPE
     THEN LET q1 == [q EXCEPT !.state = "DOCTYPE"]
              q2 == IF q1.doctype # <<>> \/ q1.hasSeenRoot
                    THEN fail(q1, "Inappropriately located doctype declaration") ELSE q1
          IN [q2 EXCEPT !.doctype = <<>>, !.sgmlDeclaration = <<>>]
     ELSE IF c = ">"
     THEN [emitNode(q, [Event("onSgmlDeclaration") EXCEPT !.value = q.sgmlDeclaration])
             EXCEPT !.sgmlDeclaration = <<>>, !.state = "TEXT"]
     ELSE IF isQuote(c)
     THEN [q EXCEPT !.state = "SGML_DECLARATION_QUOTED", !.sgmlDeclaration = decl]
     ELSE [q EXCEPT !.sgmlDeclaration = decl]

SGML_DECLARATION_QUOTED(q, c) ==
  LET q1 == IF c = q.quoteChar
            THEN [q EXCEPT !.state = "SGML_DECLARATION", !.quoteChar = ""] ELSE q
  IN [q1 EXCEPT !.sgmlDeclaration = Append(@, c)]

DOCTYPE(q, c) ==
  IF c = ">"
  THEN [emitNode([q EXCEPT !.state = "TEXT"], [Event("onDoctype") EXCEPT !.value = q.doctype])
          EXCEPT !.hasDoctype = TRUE]
  ELSE LET q1 == [q EXCEPT !.doctype = Append(@, c)]
       IN IF c = "[" THEN [q1 EXCEPT !.state = "DOCTYPE_DTD"]
          ELSE IF isQuote(c) THEN [q1 EXCEPT !.state = "DOCTYPE_QUOTED", !.quoteChar = c]
          ELSE q1

DOCTYPE_QUOTED(q, c) ==
  LET q1 == [q EXCEPT !.doctype = Append(@, c)]
  IN IF c = q.quoteChar THEN [q1 EXCEPT !.quoteChar = "", !.state = "DOCTYPE"] ELSE q1

DOCTYPE_DTD(q, c) ==
  IF c = "]" THEN [q EXCEPT !.doctype = Append(@, c), !.state = "DOCTYPE"]
  ELSE IF c = "<" THEN [q EXCEPT !.state = "OPEN_WAKA", !.startTagPosition = q.position]
  ELSE IF isQuote(c)
  THEN [q EXCEPT !.doctype = Append(@, c), !.state = "DOCTYPE_DTD_QUOTED", !.quoteChar = c]
  ELSE [q EXCEPT !.doctype = Append(@, c)]

DOCTYPE_DTD_QUOTED(q, c) ==
  LET q1 == [q EXCEPT !.doctype = Append(@, c)]
  IN IF c = q.quoteChar THEN [q1 EXCEPT !.state = "DOCTYPE_DTD", !.quoteChar = ""] ELSE q1

COMMENT(q, c) ==
  IF c = "-" THEN [q EXCEPT !.state = "COMMENT_ENDING"]
  ELSE [q EXCEPT !.comment = Append(@, c)]

COMMENT_ENDING(q, c) ==
  IF c = "-"
  THEN LET text == applyTextOptions(q.comment)
           q1 == [q EXCEPT !.state = "COMMENT_ENDED", !.comment = text]
           q2 == IF text # <<>>
                 THEN emitNode(q1, [Event("onComment") EXCEPT !.value = text]) ELSE q1
       IN [q2 EXCEPT !.comment = <<>>]
  ELSE [q EXCEPT !.comment = @ \o <<"-", c>>, !.state = "COMMENT"]

\* COMMENT_ENDED leaving every comment for TEXT
COMMENT_ENDED_toText(q, c) ==
  IF c # ">"
  THEN [fail(q, "Malformed comment")
          EXCEPT !.comment = @ \o <<"-", "-", c>>, !.state = "COMMENT"]
  ELSE [q EXCEPT !.state = "TEXT"]

COMMENT_ENDED(q, c) ==
  IF c # ">"
  THEN [fail(q, "Malformed comment")
          EXCEPT !.comment = @ \o <<"-", "-", c>>, !.state = "COMMENT"]
  ELSE IF q.doctype # <<>> /\ ~q.hasDoctype THEN [q EXCEPT !.state = "DOCTYPE_DTD"]
  ELSE [q EXCEPT !.state = "TEXT"]

\* case State.CDATA: returns the parser and the index of the next unread char
CDATA(q, chunk, i) ==
  LET j == scanTo(chunk, i, {"]"})
      last == IF j > Len(chunk) THEN Len(chunk) ELSE j
      scanned(q1) ==
        [q1 EXCEPT !.cdata = @ \o SubSeq(chunk, i, j - 1),
                   !.state = IF j <= Len(chunk) THEN "CDATA_ENDING" ELSE @]
  IN [q |-> scanned(trackRun(q, chunk, i + 1, last)), next |-> j + 1]

CDATA_ENDING(q, c) ==
  IF c = "]" THEN [q EXCEPT !.state = "CDATA_ENDING_2"]
  ELSE [q EXCEPT !.cdata = @ \o <<"]", c>>, !.state = "CDATA"]

\* the second state of the ending dropping the further `]' of a run
CDATA_ENDING_2_dropping(q, c) ==
  IF c = ">"
  THEN [emitNode(IF q.cdata # <<>>
                 THEN emitNode(q, [Event("onCdata") EXCEPT !.value = q.cdata]) ELSE q,
                 Event("onCloseCdata"))
          EXCEPT !.cdata = <<>>, !.state = "TEXT"]
  ELSE IF c = "]" THEN q
  ELSE [q EXCEPT !.cdata = @ \o <<"]", "]", c>>, !.state = "CDATA"]

CDATA_ENDING_2(q, c) ==
  IF c = ">"
  THEN [emitNode(IF q.cdata # <<>>
                 THEN emitNode(q, [Event("onCdata") EXCEPT !.value = q.cdata]) ELSE q,
                 Event("onCloseCdata"))
          EXCEPT !.cdata = <<>>, !.state = "TEXT"]
  ELSE IF c = "]" THEN [q EXCEPT !.cdata = Append(@, "]")]
  ELSE [q EXCEPT !.cdata = @ \o <<"]", "]", c>>, !.state = "CDATA"]

PROCESSING_INSTRUCTION(q, c) ==
  IF c = "?" THEN [q EXCEPT !.state = "PROCESSING_INSTRUCTION_ENDING"]
  ELSE IF isWhitespace(c) THEN [q EXCEPT !.state = "PROCESSING_INSTRUCTION_BODY"]
  ELSE [q EXCEPT !.piName = Append(@, c)]

PROCESSING_INSTRUCTION_BODY(q, c) ==
  IF q.piBody = <<>> /\ isWhitespace(c) THEN q
  ELSE IF c = "?" THEN [q EXCEPT !.state = "PROCESSING_INSTRUCTION_ENDING"]
  ELSE [q EXCEPT !.piBody = Append(@, c)]

PROCESSING_INSTRUCTION_ENDING(q, c) ==
  IF c = ">"
  THEN [emitNode(q, [Event("onProcessingInstruction")
                       EXCEPT !.name = q.piName, !.value = q.piBody])
          EXCEPT !.piName = <<>>, !.piBody = <<>>, !.state = "TEXT"]
  ELSE [q EXCEPT !.piBody = @ \o <<"?", c>>, !.state = "PROCESSING_INSTRUCTION_BODY"]

OPEN_TAG(q, c) ==
  IF NAME_BODY(c) THEN [q EXCEPT !.tagName = Append(@, c)]
  ELSE LET q1 == newTag(q)
       IN IF c = ">" THEN openTag(q1, FALSE)
          ELSE IF c = "/" THEN [q1 EXCEPT !.state = "OPEN_TAG_SLASH"]
          ELSE [(IF ~isWhitespace(c) THEN fail(q1, "Invalid character in tag name") ELSE q1)
                  EXCEPT !.state = "ATTRIBUTE"]

OPEN_TAG_SLASH(q, c) ==
  IF c = ">" THEN closeTag(openTag(q, TRUE))
  ELSE [fail(q, "Forward-slash in opening tag not followed by >")
          EXCEPT !.state = "ATTRIBUTE"]

ATTRIBUTE(q, c) ==
  IF isWhitespace(c) THEN q
  ELSE IF c = ">" THEN openTag(q, FALSE)
  ELSE IF c = "/" THEN [q EXCEPT !.state = "OPEN_TAG_SLASH"]
  ELSE IF NAME_START(c)
  THEN [q EXCEPT !.attributeName = <<c>>, !.attributeValue = <<>>,
                 !.state = "ATTRIBUTE_NAME"]
  ELSE fail(q, "Invalid attribute name")

ATTRIBUTE_NAME(q, c) ==
  IF c = "=" THEN [q EXCEPT !.state = "ATTRIBUTE_VALUE"]
  ELSE IF c = ">"
  THEN LET q1 == fail(q, "Attribute without value")
       IN openTag(processAttribute([q1 EXCEPT !.attributeValue = q1.attributeName]), FALSE)
  ELSE IF isWhitespace(c) THEN [q EXCEPT !.state = "ATTRIBUTE_NAME_SAW_WHITE"]
  ELSE IF NAME_BODY(c) THEN [q EXCEPT !.attributeName = Append(@, c)]
  ELSE fail(q, "Invalid attribute name")

ATTRIBUTE_NAME_SAW_WHITE(q, c) ==
  IF c = "=" THEN [q EXCEPT !.state = "ATTRIBUTE_VALUE"]
  ELSE IF isWhitespace(c) THEN q
  ELSE LET q1 == fail(q, "Attribute without value")
           a == Attr(q1.attributeName, <<>>, <<>>, <<>>, <<>>)
           q2 == [q1 EXCEPT !.tag.attributes = setAttribute(@, a), !.attributeValue = <<>>]
           q3 == [emitNode(q2, attributeEvent(a)) EXCEPT !.attributeName = <<>>]
       IN IF c = ">" THEN openTag(q3, FALSE)
          ELSE IF NAME_START(c)
          THEN [q3 EXCEPT !.attributeName = <<c>>, !.state = "ATTRIBUTE_NAME"]
          ELSE [fail(q3, "Invalid attribute name") EXCEPT !.state = "ATTRIBUTE"]

ATTRIBUTE_VALUE(q, c) ==
  IF isWhitespace(c) THEN q
  ELSE IF isQuote(c) THEN [q EXCEPT !.quoteChar = c, !.state = "ATTRIBUTE_VALUE_QUOTED"]
  ELSE [(IF ~options.unquotedAttributeValues THEN fail(q, "Unquoted attribute value") ELSE q)
          EXCEPT !.state = "ATTRIBUTE_VALUE_UNQUOTED", !.attributeValue = <<c>>]

ATTRIBUTE_VALUE_QUOTED(q, c) ==
  IF c # q.quoteChar
  THEN IF c = "&" THEN [q EXCEPT !.state = "ATTRIBUTE_VALUE_ENTITY_QUOTED"]
       ELSE [q EXCEPT !.attributeValue = Append(@, c)]
  ELSE [processAttribute(q) EXCEPT !.quoteChar = "", !.state = "ATTRIBUTE_VALUE_CLOSED"]

ATTRIBUTE_VALUE_CLOSED(q, c) ==
  IF isWhitespace(c) THEN [q EXCEPT !.state = "ATTRIBUTE"]
  ELSE IF c = ">" THEN openTag(q, FALSE)
  ELSE IF c = "/" THEN [q EXCEPT !.state = "OPEN_TAG_SLASH"]
  ELSE IF NAME_START(c)
  THEN [fail(q, "No whitespace between attributes")
          EXCEPT !.attributeName = <<c>>, !.attributeValue = <<>>, !.state = "ATTRIBUTE_NAME"]
  ELSE fail(q, "Invalid attribute name")

ATTRIBUTE_VALUE_UNQUOTED(q, c) ==
  IF ~isAttributeEnd(c)
  THEN IF c = "&" THEN [q EXCEPT !.state = "ATTRIBUTE_VALUE_ENTITY_UNQUOTED"]
       ELSE [q EXCEPT !.attributeValue = Append(@, c)]
  ELSE LET q1 == processAttribute(q)
       IN IF c = ">" THEN openTag(q1, FALSE) ELSE [q1 EXCEPT !.state = "ATTRIBUTE"]

CLOSE_TAG(q, c) ==
  IF q.tagName = <<>>
  THEN IF isWhitespace(c) THEN q
       ELSE IF ~NAME_START(c) THEN fail(q, "Invalid closing tag name.")
       ELSE [q EXCEPT !.tagName = <<c>>]
  ELSE IF c = ">" THEN closeTag(q)
  ELSE IF NAME_BODY(c) THEN [q EXCEPT !.tagName = Append(@, c)]
  ELSE IF ~isWhitespace(c) THEN fail(q, "Invalid tagname in closing tag")
  ELSE [q EXCEPT !.state = "CLOSE_TAG_SAW_WHITE"]

CLOSE_TAG_SAW_WHITE(q, c) ==
  IF isWhitespace(c) THEN q
  ELSE IF c = ">" THEN closeTag(q)
  ELSE fail(q, "Invalid characters in closing tag")

step(q, c) ==
  CASE q.state = "BEGIN" -> BEGIN(q, c)
    [] q.state = "BEGIN_WHITESPACE" -> beginWhitespace(q, c)
    [] q.state = "OPEN_WAKA" -> OPEN_WAKA(q, c)
    [] q.state = "SGML_DECLARATION" -> SGML_DECLARATION(q, c)
    [] q.state = "SGML_DECLARATION_QUOTED" -> SGML_DECLARATION_QUOTED(q, c)
    [] q.state = "DOCTYPE" -> DOCTYPE(q, c)
    [] q.state = "DOCTYPE_QUOTED" -> DOCTYPE_QUOTED(q, c)
    [] q.state = "DOCTYPE_DTD" -> DOCTYPE_DTD(q, c)
    [] q.state = "DOCTYPE_DTD_QUOTED" -> DOCTYPE_DTD_QUOTED(q, c)
    [] q.state = "COMMENT" -> COMMENT(q, c)
    [] q.state = "COMMENT_ENDING" -> COMMENT_ENDING(q, c)
    [] q.state = "COMMENT_ENDED" -> COMMENT_ENDED(q, c)
    [] q.state = "CDATA_ENDING" -> CDATA_ENDING(q, c)
    [] q.state = "CDATA_ENDING_2" -> CDATA_ENDING_2(q, c)
    [] q.state = "PROCESSING_INSTRUCTION" -> PROCESSING_INSTRUCTION(q, c)
    [] q.state = "PROCESSING_INSTRUCTION_BODY" -> PROCESSING_INSTRUCTION_BODY(q, c)
    [] q.state = "PROCESSING_INSTRUCTION_ENDING" -> PROCESSING_INSTRUCTION_ENDING(q, c)
    [] q.state = "OPEN_TAG" -> OPEN_TAG(q, c)
    [] q.state = "OPEN_TAG_SLASH" -> OPEN_TAG_SLASH(q, c)
    [] q.state = "ATTRIBUTE" -> ATTRIBUTE(q, c)
    [] q.state = "ATTRIBUTE_NAME" -> ATTRIBUTE_NAME(q, c)
    [] q.state = "ATTRIBUTE_NAME_SAW_WHITE" -> ATTRIBUTE_NAME_SAW_WHITE(q, c)
    [] q.state = "ATTRIBUTE_VALUE" -> ATTRIBUTE_VALUE(q, c)
    [] q.state = "ATTRIBUTE_VALUE_QUOTED" -> ATTRIBUTE_VALUE_QUOTED(q, c)
    [] q.state = "ATTRIBUTE_VALUE_CLOSED" -> ATTRIBUTE_VALUE_CLOSED(q, c)
    [] q.state = "ATTRIBUTE_VALUE_UNQUOTED" -> ATTRIBUTE_VALUE_UNQUOTED(q, c)
    [] q.state = "CLOSE_TAG" -> CLOSE_TAG(q, c)
    [] q.state = "CLOSE_TAG_SAW_WHITE" -> CLOSE_TAG_SAW_WHITE(q, c)

EntityStates == {"TEXT_ENTITY", "ATTRIBUTE_VALUE_ENTITY_QUOTED",
                 "ATTRIBUTE_VALUE_ENTITY_UNQUOTED"}

\* every reference returning the lexer to TEXT
returnStateText(state) == "TEXT"

returnState(state) ==
  IF state = "TEXT_ENTITY" THEN "TEXT"
  ELSE IF state = "ATTRIBUTE_VALUE_ENTITY_QUOTED" THEN "ATTRIBUTE_VALUE_QUOTED"
  ELSE "ATTRIBUTE_VALUE_UNQUOTED"

\* this[buffer] += text for the buffer the entity state belongs to
appendToBuffer(q, state, text) ==
  IF state = "TEXT_ENTITY" THEN [q EXCEPT !.textNode = @ \o text]
  ELSE [q EXCEPT !.attributeValue = @ \o text]

\* the entity cases for a character other than ";"
entityChar(q, c) ==
  IF (IF Len(q.entity) > 0 THEN ENTITY_BODY(c) ELSE ENTITY_START(c))
  THEN [q EXCEPT !.entity = Append(@, c)]
  ELSE LET asText(q1) ==
             [appendToBuffer(q1, q.state, <<"&">> \o q1.entity \o <<c>>)
                EXCEPT !.entity = <<>>, !.state = returnState(q.state)]
       IN asText(fail(q, "Invalid character in entity name"))

\* the test without its second operand: every replacement text is fed back
isRefedAlways(text) == options.unparsedEntities

\* whether a resolved entity is fed back into write
isRefed(text) == options.unparsedEntities /\ ~isPredefinedValue(text)

RECURSIVE write(_, _, _), writeLoop(_, _, _, _)
\* Parser.write; q.thrown tells how the call came back: "none" (returned),
\* "error" (the latched error was thrown), "overflow" (call stack exhausted),
\* "range" (RangeError from String.fromCodePoint)
write(q, chunk, depth) ==
  IF depth > MaxCallDepth THEN [q EXCEPT !.thrown = "overflow"]
  ELSE IF ~q.error.isNull THEN [q EXCEPT !.thrown = "error"]
  ELSE IF q.isEnded THEN fail(q, "Cannot write after close. Assign an onReady handler.")
  ELSE writeLoop(q, chunk, 1, depth)

writeLoop(q, chunk, i, depth) ==
  IF q.thrown # "none" THEN q
  ELSE IF i > Len(chunk) THEN afterLoop([q EXCEPT !.char = ""])
  ELSE LET c == chunk[i]
           \* the entity cases for ";": the resolved text is written or buffered
           resolved(q1, r) ==
             IF r.q.thrown # "none" THEN r.q
             ELSE IF isRefed(r.text)
             THEN write([r.q EXCEPT !.entity = <<>>, !.state = returnState(q1.state)],
                        r.text, depth + 1)
             ELSE appendToBuffer([r.q EXCEPT !.entity = <<>>,
                                             !.state = returnState(q1.state)],
                                 q1.state, r.text)
           \* one iteration of the loop: the parser and the next unread index
           iteration(q1) ==
             IF q1.state = "TEXT" THEN TEXT(q1, chunk, i)
             ELSE IF q1.state = "CDATA" THEN CDATA(q1, chunk, i)
             ELSE [q |-> IF q1.state \in EntityStates
                         THEN IF c = ";" THEN resolved(q1, parseEntity(q1))
                              ELSE entityChar(q1, c)
                         ELSE step(q1, c),
                   next |-> i + 1]
           continue(r) == writeLoop(r.q, chunk, r.next, depth)
       IN continue(iteration(track([q EXCEPT !.char = c], c)))

\* flush() that leaves the lexer in TEXT
flushToText(q) ==
  LET flushCdata(q1) ==
        IF q1.cdata # <<>>
        THEN [emitNode(q1, [Event("onCdata") EXCEPT !.value = q1.cdata])
                EXCEPT !.cdata = <<>>]
        ELSE q1
  IN flushCdata([closeText(q) EXCEPT !.state = "TEXT"])

\* flush() delivering the text without emptying the text buffer
flushKeepingText(q) ==
  LET flushCdata(q1) ==
        IF q1.cdata # <<>>
        THEN [emitNode(q1, [Event("onCdata") EXCEPT !.value = q1.cdata])
                EXCEPT !.cdata = <<>>]
        ELSE q1
  IN flushCdata([closeText(q) EXCEPT !.textNode = q.textNode])

flush(q) ==
  LET flushCdata(q1) ==
        IF q1.cdata # <<>>
        THEN [emitNode(q1, [Event("onCdata") EXCEPT !.value = q1.cdata])
                EXCEPT !.cdata = <<>>]
        ELSE q1
  IN flushCdata(closeText(q))

\* reset() that leaves the flag of the closed root as it is
resetKeepingRootClosed(q) ==
  emit([q EXCEPT !.error = NoError, !.tag = NoTag, !.tags = <<>>, !.attributeList = <<>>,
             !.bufferCheckPosition = MAX_BUFFER_LENGTH,
             !.column = 0, !.line = 0, !.position = 0, !.startTagPosition = 0,
             !.hasDoctype = FALSE, !.hasSeenRoot = FALSE, !.isEnded = FALSE,
             !.state = "BEGIN",
             !.ns = IF options.namespaces THEN 1 ELSE @,
             !.nsHeap = IF options.namespaces THEN <<[parent |-> 0, own |-> <<>>]>> ELSE @,
             !.attributeName = <<>>, !.attributeValue = <<>>, !.cdata = <<>>,
             !.char = "", !.comment = <<>>, !.doctype = <<>>, !.entity = <<>>,
             !.piBody = <<>>, !.piName = <<>>, !.quoteChar = "",
             !.sgmlDeclaration = <<>>, !.tagName = <<>>, !.textNode = <<>>],
       Event("onReady"))

\* Parser.reset: every field is assigned its initial value (a fresh ns object
\* replaces the namespace objects) and onReady is emitted
reset(q) ==
  emit([q EXCEPT !.error = NoError, !.tag = NoTag, !.tags = <<>>, !.attributeList = <<>>,
             !.bufferCheckPosition = MAX_BUFFER_LENGTH,
             !.column = 0, !.line = 0, !.position = 0, !.startTagPosition = 0,
             !.hasDoctype = FALSE, !.hasSeenRoot = FALSE, !.isEnded = FALSE,
             !.isRootClosed = FALSE, !.state = "BEGIN",
             !.ns = IF options.namespaces THEN 1 ELSE @,
             !.nsHeap = IF options.namespaces THEN <<[parent |-> 0, own |-> <<>>]>> ELSE @,
             !.attributeName = <<>>, !.attributeValue = <<>>, !.cdata = <<>>,
             !.char = "", !.comment = <<>>, !.doctype = <<>>, !.entity = <<>>,
             !.piBody = <<>>, !.piName = <<>>, !.quoteChar = "",
             !.sgmlDeclaration = <<>>, !.tagName = <<>>, !.textNode = <<>>],
       Event("onReady"))

\* end() that also empties the tag stack
endClearingTags(q) ==
  IF q.isEnded THEN q
  ELSE LET finish(q3) ==
             emit([q3 EXCEPT !.char = "", !.isEnded = TRUE, !.tags = <<>>], Event("onEnd"))
           checkState(q2) ==
             finish(IF q2.state \notin {"BEGIN", "BEGIN_WHITESPACE", "TEXT"}
                    THEN fail(q2, "Unexpected end") ELSE q2)
           checkRoot(q1) ==
             checkState(IF q1.hasSeenRoot /\ ~q1.isRootClosed
                        THEN fail(q1, "Unclosed root tag") ELSE q1)
       IN checkRoot(flush(q))

\* end() followed by reset(), as SAXParser.end of src/parser.ts does
endResetting(q) ==
  IF q.isEnded THEN q
  ELSE LET finish(q3) ==
             reset(emit([q3 EXCEPT !.char = "", !.isEnded = TRUE], Event("onEnd")))
           checkState(q2) ==
             finish(IF q2.state \notin {"BEGIN", "BEGIN_WHITESPACE", "TEXT"}
                    THEN fail(q2, "Unexpected end") ELSE q2)
           checkRoot(q1) ==
             checkState(IF q1.hasSeenRoot /\ ~q1.isRootClosed
                        THEN fail(q1, "Unclosed root tag") ELSE q1)
       IN checkRoot(flush(q))

end(q) ==
  IF q.isEnded THEN q
  ELSE LET finish(q3) == emit([q3 EXCEPT !.char = "", !.isEnded = TRUE], Event("onEnd"))
           checkState(q2) ==
             finish(IF q2.state \notin {"BEGIN", "BEGIN_WHITESPACE", "TEXT"}
                    THEN fail(q2, "Unexpected end") ELSE q2)
           checkRoot(q1) ==
             checkState(IF q1.hasSeenRoot /\ ~q1.isRootClosed
                        THEN fail(q1, "Unclosed root tag") ELSE q1)
       IN checkRoot(flush(q))

(***************************************************************************)
(* Inputs: option settings, entity tables and documents.                   *)
(***************************************************************************)
DefaultOptions ==
  [caseTransform |-> "preserve", namespaces |-> FALSE, normalize |-> FALSE,
   strict |-> FALSE, strictEntities |-> FALSE, trackPosition |-> FALSE, trim |-> FALSE,
   unparsedEntities |-> FALSE, unquotedAttributeValues |-> TRUE]
StrictOptions == [DefaultOptions EXCEPT !.strict = TRUE, !.unquotedAttributeValues = FALSE]

OptionSettings ==
  { DefaultOptions,
    StrictOptions,
    [DefaultOptions EXCEPT !.caseTransform = "uppercase"],
    [DefaultOptions EXCEPT !.caseTransform = "lowercase", !.trim = TRUE, !.normalize = TRUE],
    [DefaultOptions EXCEPT !.unparsedEntities = TRUE, !.trackPosition = TRUE],
    [StrictOptions EXCEPT !.unparsedEntities = TRUE],
    [DefaultOptions EXCEPT !.namespaces = TRUE, !.trackPosition = TRUE],
    [StrictOptions EXCEPT !.namespaces = TRUE, !.strictEntities = TRUE],
    [DefaultOptions EXCEPT !.strictEntities = TRUE] }

\* entities the application added to the table (SAX.ENTITIES.name = text)
UserEntities ==
  << <<<<"e">>, <<"<","b","/",">">>>>,
     <<<<"t">>, <<"2","&","n",";">>>>,
     <<<<"n">>, <<"1">>>>,
     <<<<"x">>, <<"&","x",";">>>>,
     <<<<"y">>, <<"&","z",";">>>>,
     <<<<"z">>, <<"&","y",";">>>> >>

open(n) == <<"<", n, ">">>
close(n) == <<"<", "/", n, ">">>
selfClose(n) == <<"<", n, "/", ">">>
ref(name) == <<"&">> \o name \o <<";">>
attr(n, v) == <<" ", n, "=", "\"">> \o v \o <<"\"">>
cdataOpen == <<"<", "!">> \o S_CDATA

Documents ==
  { open("a") \o <<"x", "y">> \o close("a"),
    open("a") \o open("b") \o close("a"),
    open("a") \o close("b") \o close("a"),
    open("A") \o <<"t">> \o close("a"),
    open("a") \o close("A"),
    <<"<", "a", "b", ">">> \o <<"<", "/", "A", "B", ">">>,
    selfClose("a") \o <<"z">>,
    <<"x">> \o selfClose("a"),
    <<" ">> \o open("a") \o <<" ", "x", " ", " ", "y", " ">> \o close("a"),
    open("a") \o <<"x", "<", "<", "y">> \o close("a"),
    open("a") \o <<"x", "<", " ", "<", "y">> \o close("a"),
    open("a") \o <<"x">> \o ref(<<"l","t">>) \o <<"y">> \o close("a"),
    open("a") \o ref(<<"c","o","p","y">>) \o ref(<<"q">>) \o <<"y">> \o close("a"),
    open("a") \o <<"x", "&", " ", "y">> \o close("a"),
    open("a") \o ref(<<"#","6","0">>) \o ref(<<"#","x","4","1">>) \o ref(<<"#","-","1">>) \o close("a"),
    open("a") \o ref(<<"e">>) \o ref(<<"t">>) \o close("a"),
    open("a") \o <<"u">> \o ref(<<"x">>) \o close("a"),
    open("a") \o ref(<<"y">>) \o close("a"),
    <<"x">> \o open("a") \o ref(<<"n">>) \o <<"w">> \o close("a"),
    <<"<", "a">> \o attr("b", <<"v">>) \o attr("c", ref(<<"a","m","p">>)) \o <<"/", ">">>,
    <<"<", "a">> \o attr("b", <<"1">>) \o <<"c", "=", "\"", "2", "\"">> \o <<">">> \o close("a"),
    <<"<", "a">> \o attr("b", <<"1">>) \o attr("B", <<"2">>) \o attr("b", <<"3">>) \o <<">">>,
    <<"<", "a", " ", "b", " ", "c", "=", "v", " ", "d", ">">> \o close("a"),
    <<"<", "a", " ", "b", "=", "1", " ", "b", " ", ">">>,
    <<"<", "a", " ", "b", "=", "&", "n", ";", "w", ">", "x">>,
    <<"<", "a">> \o attr("b", ref(<<"e">>)) \o <<">">> \o close("a"),
    <<"<", "a", " ", "b", "=", "'">> \o ref(<<"q", "u", "o", "t">>) \o <<"'", ">", "x">>
       \o ref(<<"g", "t">>) \o close("a"),
    <<"<", "a", " ", "/", "b", ">", "<", "/", " ", "a", " ", ">">>,
    open("r") \o cdataOpen \o <<"x", "]", "y", "]", "]", "]", ">">> \o close("r"),
    open("r") \o cdataOpen \o <<"]", "]", ">", "t">> \o cdataOpen \o <<"u">>,
    open("r") \o cdataOpen \o <<"x", "]", "y", "]", ">", "]", "]", "]", "]", ">">> \o close("r"),
    <<"<", "!", "-", "-", " ", "c", " ", "-", "-", ">">> \o selfClose("a"),
    open("a") \o <<"x", "<", "!", "-", "-", "c", "-", "d", "-", "-", "e", "-", "-", ">">> \o close("a"),
    <<"<", "?", "p", " ", "q", "?", "r", "?", ">">> \o selfClose("a"),
    <<"<", "!">> \o S_DOCTYPE \o <<" ", "d", ">">> \o open("a") \o <<"<", "!">> \o S_DOCTYPE \o <<">">>,
    <<"<", "!">> \o S_DOCTYPE \o <<" ", "d", "[", "<", "!", "-", "-", "c", "-", "-", ">", "]", ">">> \o selfClose("a"),
    <<"<", "!">> \o S_DOCTYPE \o <<">", "<", "!">> \o S_DOCTYPE \o <<"[">>,
    <<"<", "!", "E", " ", "'", "v", "'", ">">> \o selfClose("a"),
    open("a") \o <<"<", "/", ">", "<", "/", "a", "?", ">">>,
    selfClose("a") \o <<"x", "<", "b", ">", "&", "l", "t", ";">>,
    <<BOM, "\n">> \o open("a") \o <<"\n", "x">> \o open("b") \o <<"y">> \o close("b") \o close("a"),
    <<"<", "p", ":", "a", " ", "x", "m", "l", "n", "s", ":", "p", "=", "\"", "u", "\"", " ", "p", ":", "b", "=", "\"", "1", "\"", ">">>
       \o <<"<", "q", ":", "c", " ", "q", ":", "d", "=", "'", "2", "'", "/", ">">> \o <<"<", "/", "p", ":", "a", ">">>,
    <<"<", "a", " ", "x", "m", "l", "n", "s", "=", "\"", "u", "\"", ">">> \o selfClose("b") \o close("a"),
    <<"<", "a", " ", "x", "m", "l", "n", "s", "=", "'", "u", "'", " ", "c", " ", ">">>
  }

(***************************************************************************)
(* The feeder: API calls on one parser.                                    *)
(***************************************************************************)
errorCount(events) == Cardinality({i \in 1..Len(events) : events[i].type = "onError"})

\* two instances on which nothing has been decoded
Alone(first, second) ==
  [first |-> [p |-> first, decoder |-> <<>>], second |-> [p |-> second, decoder |-> <<>>]]

Call(op, outcome, q) ==
  [op |-> op, outcome |-> outcome, latched |-> ~q.error.isNull, ended |-> q.isEnded]

\* the construction choosing the entity table by options.strict
InitTableByStrict ==
  /\ options \in OptionSettings
  /\ ENTITIES = (IF options.strict THEN XML_PREDEFINED_ENTITIES
                 ELSE HTML_NAMED_CHARACTER_ENTITIES) \o UserEntities
  /\ p = NewParser
  /\ input \in Documents
  /\ fed = <<>>
  /\ lastCall = Call("new", "returned", NewParser)
  /\ raisedEver = FALSE
  /\ flushes = 0
  /\ reported = FALSE
  /\ resets = 0
  /\ decoder = <<>>
  /\ peer = [p |-> NewParser, input |-> <<>>]
  /\ alone = Alone(NewParser, NewParser)

Init ==
  /\ options \in OptionSettings
  /\ ENTITIES = (IF options.strictEntities THEN XML_PREDEFINED_ENTITIES
                 ELSE HTML_NAMED_CHARACTER_ENTITIES) \o UserEntities
  /\ p = NewParser
  /\ input \in Documents
  /\ fed = <<>>
  /\ lastCall = Call("new", "returned", NewParser)
  /\ raisedEver = FALSE
  /\ flushes = 0
  /\ reported = FALSE
  /\ resets = 0
  /\ decoder = <<>>
  /\ peer = [p |-> NewParser, input |-> <<>>]
  /\ alone = Alone(NewParser, NewParser)

\* parser.write(chunk) with the next k characters of the input; an exception
\* that escapes write ends the feeding of this session
Write(k) ==
  /\ k <= Len(input)
  /\ ~raisedEver
  /\ LET called(chunk, r) ==
           /\ p' = [r EXCEPT !.thrown = "none"]
           /\ lastCall' = Call("write", IF r.thrown = "none" THEN "returned"
                                        ELSE IF r.thrown = "error" THEN "raised"
                                        ELSE r.thrown, p)
           /\ raisedEver' = (raisedEver \/ r.thrown # "none")
           /\ reported' = (reported \/ errorCount(r.events) > errorCount(p.events))
           /\ input' = SubSeq(input, k + 1, Len(input))
           /\ fed' = fed \o chunk
     IN called(SubSeq(input, 1, k), write(p, SubSeq(input, 1, k), 0))
  /\ UNCHANGED <<decoder, peer, alone, options, ENTITIES, flushes, resets>>

\* parser.end()
End ==
  /\ LET called(r) ==
           /\ p' = r
           /\ reported' = (reported \/ errorCount(r.events) > errorCount(p.events))
     IN called(end(p))
  /\ lastCall' = Call("end", "returned", p)
  /\ UNCHANGED <<decoder, peer, alone, options, ENTITIES, input, fed, raisedEver, flushes, resets>>

\* parser.flush(), called while text or character data is buffered (it does
\* nothing otherwise)
Flush ==
  /\ flushes < MaxFlushes
  /\ ~p.isEnded
  /\ p.textNode # <<>> \/ p.cdata # <<>>
  /\ p' = flush(p)
  /\ lastCall' = Call("flush", "returned", p)
  /\ flushes' = flushes + 1
  /\ UNCHANGED <<decoder, peer, alone, options, ENTITIES, input, fed, raisedEver, reported, resets>>

\* the caller clears the latched error to go on parsing: parser.error = null
Resume ==
  /\ ~p.error.isNull
  /\ ~p.isEnded
  /\ p' = [p EXCEPT !.error = NoError]
  /\ lastCall' = Call("resume", "returned", p)
  /\ reported' = FALSE
  /\ UNCHANGED <<decoder, peer, alone, options, ENTITIES, input, fed, raisedEver, flushes, resets>>

\* the handlers start a new log at the last event delivered (the onReady of
\* reset)
restartLog(q) == [q EXCEPT !.events = <<@[Len(@)]>>]

\* parser.reset(), after which the caller feeds the document again
Reset ==
  /\ resets < MaxResets
  /\ p' = restartLog(reset(p))
  /\ lastCall' = Call("reset", "returned", p)
  /\ input' = fed \o input
  /\ fed' = <<>>
  /\ raisedEver' = FALSE
  /\ flushes' = 0
  /\ reported' = FALSE
  /\ resets' = resets + 1
  /\ UNCHANGED <<decoder, peer, alone, options, ENTITIES>>

Next ==
  \/ \E k \in 1..MaxChunk : Write(k)
  \/ End
  \/ Flush
  \/ Resume
  \/ Reset

Spec == Init /\ [][Next]_vars

(***************************************************************************)
(* Observers of the event log.                                             *)
(***************************************************************************)
RECURSIVE openElements(_, _)
\* the names of the elements the first n events have opened and not closed
openElements(events, n) ==
  IF n = 0 THEN <<>>
  ELSE LET s == openElements(events, n - 1)
           e == events[n]
       IN IF e.type = "onOpenTag" THEN Append(s, e.name)
          ELSE IF e.type = "onCloseTag" /\ s # <<>> THEN SubSeq(s, 1, Len(s) - 1)
          ELSE s

\* the events that may lie between an element's onOpenTagStart and onOpenTag
TagInterior == {"onAttribute", "onError", "onOpenNamespace"}

\* the first event after i that is not one of those, 0 if there is none
nextOutside(events, i) ==
  LET later == {j \in (i + 1)..Len(events) : events[j].type \notin TagInterior}
  IN IF later = {} THEN 0 ELSE CHOOSE j \in later : \A k \in later : j <= k

\* the diagnostics src/parser.ts reports through strictFail (strict mode only)
StrictOnlyMessages ==
  {"Unclosed root tag", "Text data outside of root node.", "Unencoded <",
   "Inappropriately located doctype declaration", "Malformed comment",
   "Invalid character in tag name", "Forward-slash in opening tag not followed by >",
   "Invalid attribute name", "Attribute without value",
   "No whitespace between attributes", "Invalid tagname in closing tag",
   "Invalid characters in closing tag", "Invalid character in entity name",
   "Non-whitespace before first tag.", "Weird empty close tag.",
   "Unexpected close tag", "Unmatched closing tag", "Unbound namespace prefix",
   "xml: prefix must be bound to", "xmlns: prefix must be bound to",
   "Invalid character entity"}

\* the parser after the single call write(S), S the text written so far,
\* followed by end() once the session has been ended
SingleWrite ==
  LET ended(r) == IF p.isEnded /\ r.thrown = "none" THEN end(r) ELSE r
  IN ended(write(NewParser, fed, 0))

TextCoalescence ==
  flushes = 0 =>
    \A i, j \in 1..Len(p.events) :
      (i < j /\ p.events[i].type = "onText" /\ p.events[j].type = "onText")
        => \E k \in (i + 1)..(j - 1) : p.events[k].type \notin {"onText", "onError"}

(***************************************************************************)
(* C3: stack integrity.                                                    *)
(***************************************************************************)
\* C3: every onCloseTag event carries the name of the most recently opened
\* element that is not yet closed, and none is emitted while no element is
\* open.
StackIntegrity ==
  \A n \in 1..Len(p.events) :
    p.events[n].type = "onCloseTag" =>
      LET s == openElements(p.events, n - 1)
      IN s # <<>> /\ s[Len(s)] = p.events[n].name

\* C3 witness: a close tag has closed two nested elements of different names,
\* the inner one implicitly.
StackIntegrityWitness ==
  \E i, j \in 1..Len(p.events) :
    /\ i < j
    /\ p.events[i].type = "onCloseTag" /\ p.events[j].type = "onCloseTag"
    /\ p.events[i].name # p.events[j].name
    /\ \A k \in (i + 1)..(j - 1) : p.events[k].type # "onOpenTag"
    /\ \E k \in 1..(i - 1) : p.events[k].message = "Unexpected close tag"

(***************************************************************************)
(* C4: per-element event order.                                            *)
(***************************************************************************)
\* C4: after an element's onOpenTagStart come only its onAttribute events
\* (with onOpenNamespace and onError reports) and then its onOpenTag, unless
\* the input is ended inside the tag; every onAttribute and onOpenTag lies in
\* such a window, and an onCloseTag comes after the onOpenTag of its element.
PerElementOrder ==
  LET ev == p.events
  IN /\ \A i \in 1..Len(ev) :
          ev[i].type = "onOpenTagStart" =>
            LET j == nextOutside(ev, i)
            IN j # 0 => \/ ev[j].type = "onOpenTag" /\ ev[j].name = ev[i].name
                        \/ ev[j].type = "onEnd"
     /\ \A k \in 1..Len(ev) :
          ev[k].type \in {"onAttribute", "onOpenTag"} =>
            \E i \in 1..(k - 1) :
              /\ ev[i].type = "onOpenTagStart"
              /\ \A m \in (i + 1)..(k - 1) : ev[m].type \in TagInterior
              /\ ev[k].type = "onOpenTag" => ev[k].name = ev[i].name
     /\ \A k \in 1..Len(ev) :
          ev[k].type = "onCloseTag" =>
            \E i \in 1..(k - 1) : ev[i].type = "onOpenTag" /\ ev[i].name = ev[k].name

\* C4 witness: an element with two attributes has been opened and closed.
PerElementOrderWitness ==
  \E i \in 1..Len(p.events) :
    /\ i + 4 <= Len(p.events)
    /\ p.events[i].type = "onOpenTagStart"
    /\ p.events[i + 1].type = "onAttribute"
    /\ p.events[i + 2].type = "onAttribute"
    /\ p.events[i + 3].type = "onOpenTag"
    /\ p.events[i + 4].type = "onCloseTag"

(***************************************************************************)
(* C5: case-transformed close tags.                                        *)
(***************************************************************************)
\* C5: in non-strict mode with caseTransform lowercase or uppercase, a closing
\* tag whose transformed name equals the name of an open element closes it:
\* no "Unmatched closing tag" is reported for a name that is on the stack of
\* open elements.
CaseTransformedClose ==
  (~options.strict /\ options.caseTransform # "preserve") =>
    \A n \in 1..Len(p.events) :
      (p.events[n].type = "onError" /\ p.events[n].message = "Unmatched closing tag")
        => LET s == openElements(p.events, n - 1)
           IN \A i \in 1..Len(s) : s[i] # applyCaseTransform(p.events[n].name)

(***************************************************************************)
(* C6: error latching.                                                     *)
(***************************************************************************)
\* C6: once a soft error has been reported and not cleared by the caller, the
\* next call to write raises and leaves the parser as it was: no character
\* of the chunk is consumed and no event is emitted.
ErrorLatching ==
  [][(reported /\ lastCall'.op = "write" /\ input' # input)
       => (lastCall'.outcome = "raised" /\ p' = p)]_vars

\* C6 witness: in strict mode a write on a parser with a latched error raised.
ErrorLatchingWitness ==
  /\ options.strict
  /\ lastCall.op = "write" /\ lastCall.latched /\ lastCall.outcome = "raised"
  /\ ~p.isEnded /\ ~p.error.isNull

(***************************************************************************)
(* C7: strict-only diagnostics in non-strict mode.                         *)
(***************************************************************************)
\* C7: in non-strict mode no strict-only diagnostic is reported through
\* onError (and so none is latched).
NonStrictSuppression ==
  ~options.strict =>
    \A n \in 1..Len(p.events) :
      p.events[n].type = "onError" => p.events[n].message \notin StrictOnlyMessages

(***************************************************************************)
(* C8: a strict-mode write goes on after a diagnostic.                     *)
(***************************************************************************)
\* C8: in strict mode a write accepted by the parser (no error latched, not
\* ended) never raises the diagnostic it reported itself: it processes the
\* whole chunk and returns.
StrictWriteContinues ==
  (options.strict /\ lastCall.op = "write" /\ ~lastCall.latched /\ ~lastCall.ended)
    => lastCall.outcome # "raised"

(***************************************************************************)
(* C9: write after end.                                                    *)
(***************************************************************************)
\* C9: every call to write made after end() has returned raises.
WriteAfterEndRaises ==
  (lastCall.op = "write" /\ lastCall.ended) => lastCall.outcome = "raised"

(***************************************************************************)
(* C10: termination of entity expansion.                                   *)
(***************************************************************************)
\* C10: with unparsedEntities on, every write returns: the expansion of
\* entities never nests deeper than the call stack allows.
EntityExpansionTerminates ==
  (options.unparsedEntities /\ lastCall.op = "write") => lastCall.outcome # "overflow"

(***************************************************************************)
(* C11: re-fed entities.                                                   *)
(***************************************************************************)
\* longest chain of replacements followed when a document is expanded
MaxExpansions == 6

\* the events without the positions carried by onError
unpositioned(events) ==
  [i \in 1..Len(events) |-> [events[i] EXCEPT !.line = 0, !.column = 0]]

\* the replacement text of entity `name' when it resolves without a
\* diagnostic to a text that unparsedEntities feeds back, else <<>>
refedText(name) ==
  LET resolved(r) ==
        IF r.q.thrown = "none" /\ r.q.events = NewParser.events /\ isRefed(r.text)
        THEN r.text ELSE <<>>
  IN resolved(parseEntity([NewParser EXCEPT !.entity = name]))

\* s[i..] starts a reference &name; to such an entity, at a place of the
\* text `out' before it where the lexer reads `&' as the start of a reference
startsRefed(out, s) ==
  LET semi == scanTo(s, 2, {";"})
  IN /\ s[1] = "&" /\ semi <= Len(s) /\ semi > 2
     /\ ENTITY_START(s[2]) /\ \A k \in 3..(semi - 1) : ENTITY_BODY(s[k])
     /\ refedText(SubSeq(s, 2, semi - 1)) # <<>>
     /\ write(NewParser, Append(out, "&"), 0).state \in EntityStates

RECURSIVE expandRefs(_, _, _)
\* the text s in which every such reference is replaced by its replacement
\* text, references inside replacement texts included; out is the part
\* already expanded
expandRefs(out, s, fuel) ==
  IF s = <<>> THEN out
  ELSE IF fuel > 0 /\ startsRefed(out, s)
  THEN expandRefs(out, refedText(SubSeq(s, 2, scanTo(s, 2, {";"}) - 1))
                         \o SubSeq(s, scanTo(s, 2, {";"}) + 1, Len(s)), fuel - 1)
  ELSE expandRefs(Append(out, s[1]), Tail(s), fuel)

\* the parser after the single call write(S'), S' the expansion of the text
\* written so far, followed by end() once the session has been ended
ExpandedWrite ==
  LET ended(r) == IF p.isEnded /\ r.thrown = "none" THEN end(r) ELSE r
  IN ended(write(NewParser, expandRefs(<<>>, fed, MaxExpansions), 0))

\* C11: with unparsedEntities on, the events of a document are the events of
\* the document in which every successfully resolved reference to a
\* non-predefined entity is replaced by the entity's replacement text
\* (positions of diagnostics apart), whenever the expansion is finite and
\* every number denotes a code point.
RefedAsInput ==
  options.unparsedEntities =>
    LET same(single, expanded) ==
          single.thrown \notin {"overflow", "range"}
            => unpositioned(single.events) = unpositioned(expanded.events)
    IN same(SingleWrite, ExpandedWrite)

(***************************************************************************)
(* C12: predefined entities are appended.                                  *)
(***************************************************************************)
\* the lexer states in which `&' starts a reference
ReferenceStates == {"TEXT", "ATTRIBUTE_VALUE_QUOTED", "ATTRIBUTE_VALUE_UNQUOTED"}

\* the buffer a reference read in lexer state `state' is resolved into
bufferOf(q, state) == IF state = "TEXT" THEN q.textNode ELSE q.attributeValue

endsWith(s, t) == Len(t) <= Len(s) /\ SubSeq(s, Len(s) - Len(t) + 1, Len(s)) = t

\* C12: for every option setting, wherever a reference can start, reading a
\* reference to one of the five predefined entities leaves the lexer in the
\* state it was in before the `&' with the replacement text at the end of the
\* enclosing buffer: the tag stack and the pending tag are untouched, no
\* entity is pending, and no event other than the delivery of text read
\* before it (with the diagnostic for text outside the root) is emitted, so
\* the replacement text is never read as markup or as a reference.
PredefinedAppended ==
  (p.state \in ReferenceStates /\ p.error.isNull /\ ~p.isEnded) =>
    \A i \in 1..Len(XML_PREDEFINED_ENTITIES) :
      LET text == XML_PREDEFINED_ENTITIES[i][2]
          appended(r) ==
            /\ r.thrown = "none"
            /\ r.state = p.state
            /\ r.entity = <<>>
            /\ r.tags = p.tags /\ r.tag = p.tag /\ r.tagName = p.tagName
            /\ r.attributeList = p.attributeList
            /\ endsWith(bufferOf(r, p.state), text)
            /\ Len(bufferOf(r, p.state)) <= Len(bufferOf(p, p.state)) + Len(text)
            /\ \A n \in (Len(p.events) + 1)..Len(r.events) :
                 r.events[n].type \in {"onText", "onError"}
      IN appended(write(p, ref(XML_PREDEFINED_ENTITIES[i][1]), 0))

\* C12 witness: with unparsedEntities on, the session has just read `&lt;' in
\* the text of an element, and `&amp;' in an attribute value.
PredefinedAppendedWitness ==
  /\ options.unparsedEntities
  /\ lastCall.op = "write" /\ lastCall.outcome = "returned"
  /\ \/ /\ endsWith(fed, ref(<<"l", "t">>))
        /\ p.state = "TEXT" /\ p.tags # <<>> /\ endsWith(p.textNode, <<"x", "<">>)
     \/ /\ endsWith(fed, ref(<<"a", "m", "p">>))
        /\ p.state = "ATTRIBUTE_VALUE_QUOTED" /\ endsWith(p.attributeValue, <<"&">>)

(***************************************************************************)
(* C13: attribute order.                                                   *)
(***************************************************************************)
RECURSIVE sourceAttributes(_, _, _, _, _, _)
\* the attribute names of the start tags of s[i..] in the order in which they
\* are written, read off the text alone: mode is the place in the markup
\* ("text", "waka", "skip", "tagName", "attribute", "slash", "name",
\* "nameWhite", "value", "quoted", "closed", "unquoted"), cur the name being
\* read and acc the names read so far
sourceAttributes(s, i, mode, quote, cur, acc) ==
  IF i > Len(s) THEN IF mode \in {"name", "nameWhite"} THEN Append(acc, cur) ELSE acc
  ELSE LET c == s[i]
           to(m) == sourceAttributes(s, i + 1, m, quote, cur, acc)
           named(m) == sourceAttributes(s, i + 1, m, quote, <<>>, Append(acc, cur))
           start == sourceAttributes(s, i + 1, "name", quote, <<c>>, acc)
       IN CASE mode = "text" -> to(IF c = "<" THEN "waka" ELSE "text")
            [] mode = "waka" ->
                 to(IF isWhitespace(c) THEN "waka" ELSE IF NAME_START(c) THEN "tagName"
                    ELSE IF c \in {"!", "?"} THEN "skip" ELSE "text")
            [] mode = "skip" -> to(IF c = ">" THEN "text" ELSE "skip")
            [] mode = "tagName" ->
                 to(IF NAME_BODY(c) THEN "tagName" ELSE IF c = ">" THEN "text"
                    ELSE IF c = "/" THEN "slash" ELSE "attribute")
            [] mode = "slash" -> to(IF c = ">" THEN "text" ELSE "attribute")
            [] mode \in {"attribute", "closed"} ->
                 IF isWhitespace(c) THEN to("attribute")
                 ELSE IF c = ">" THEN to("text")
                 ELSE IF c = "/" THEN to("slash")
                 ELSE IF NAME_START(c) THEN start
                 ELSE to(mode)
            [] mode = "name" ->
                 IF c = "=" THEN named("value")
                 ELSE IF c = ">" THEN named("text")
                 ELSE IF isWhitespace(c) THEN to("nameWhite")
                 ELSE IF NAME_BODY(c)
                 THEN sourceAttributes(s, i + 1, "name", quote, Append(cur, c), acc)
                 ELSE to("name")
            [] mode = "nameWhite" ->
                 IF c = "=" THEN named("value")
                 ELSE IF isWhitespace(c) THEN to("nameWhite")
                 ELSE IF c = ">" THEN named("text")
                 ELSE IF NAME_START(c)
                 THEN sourceAttributes(s, i + 1, "name", quote, <<c>>, Append(acc, cur))
                 ELSE named("attribute")
            [] mode = "value" ->
                 IF isWhitespace(c) THEN to("value")
                 ELSE IF isQuote(c)
                 THEN sourceAttributes(s, i + 1, "quoted", c, cur, acc)
                 ELSE to("unquoted")
            [] mode = "quoted" -> to(IF c = quote THEN "closed" ELSE "quoted")
            [] mode = "unquoted" ->
                 to(IF c = ">" THEN "text" ELSE IF isWhitespace(c) THEN "attribute"
                    ELSE "unquoted")

\* the names carried by the onAttribute events, in the order of the events
RECURSIVE attributeNames(_, _)
attributeNames(events, i) ==
  IF i > Len(events) THEN <<>>
  ELSE IF events[i].type = "onAttribute"
  THEN <<events[i].name>> \o attributeNames(events, i + 1)
  ELSE attributeNames(events, i + 1)

RECURSIVE isSubsequence(_, _)
\* a is b with some of its members left out (names compared without case)
isSubsequence(a, b) ==
  IF a = <<>> THEN TRUE
  ELSE IF b = <<>> THEN FALSE
  ELSE IF toLowerCase(a[1]) = toLowerCase(b[1]) THEN isSubsequence(Tail(a), Tail(b))
  ELSE isSubsequence(a, Tail(b))

\* C13: the onAttribute events come in the order in which the attributes are
\* written (an attribute may be left out, as a duplicate is); with namespaces
\* on, no onOpenNamespace of an element comes after an onAttribute of that
\* element: between the two there is an onOpenTag.
AttributeOrder ==
  /\ isSubsequence(attributeNames(p.events, 1),
                   sourceAttributes(fed, 1, "text", "", <<>>, <<>>))
  /\ options.namespaces =>
       \A k, m \in 1..Len(p.events) :
         (k < m /\ p.events[k].type = "onAttribute"
                /\ p.events[m].type = "onOpenNamespace")
           => \E j \in (k + 1)..(m - 1) : p.events[j].type = "onOpenTag"

(***************************************************************************)
(* C14: namespace scopes.                                                  *)
(***************************************************************************)
\* an attribute event that declares a binding the parser accepts
isBinding(e) ==
  /\ e.type = "onAttribute" /\ e.prefix = S_xmlns
  /\ ~(e.localName \in {S_xml, S_xmlns} /\ e.value # NS_xmlns)
isNamespaceEvent(e) == e.type \in {"onOpenNamespace", "onCloseNamespace"}

\* the declarations, and the bindings reported, as <<prefix, uri>> pairs
declarations(events) ==
  LET pairs(s) == [j \in 1..Len(s) |-> <<s[j].localName, s[j].value>>]
  IN pairs(SelectSeq(events, isBinding))
bindings(events) ==
  LET pairs(s) == [j \in 1..Len(s) |-> <<s[j].prefix, s[j].uri>>]
  IN pairs(SelectSeq(events, isNamespaceEvent))

\* the onOpenTagStart of the element announced by the onOpenTag at k
windowStart(events, k) ==
  CHOOSE i \in 1..(k - 1) :
    /\ events[i].type = "onOpenTagStart"
    /\ \A j \in (i + 1)..(k - 1) : events[j].type # "onOpenTagStart"

\* the onCloseTag of the element announced by the onOpenTag at k, 0 if the
\* element is still open
matchingClose(events, k) ==
  LET depth == Len(openElements(events, k))
      closes == {c \in (k + 1)..Len(events) :
                   /\ events[c].type = "onCloseTag"
                   /\ Len(openElements(events, c)) < depth}
  IN IF closes = {} THEN 0 ELSE CHOOSE c \in closes : \A d \in closes : c <= d

\* the onCloseNamespace events that directly follow the event at c
closeRun(events, c) ==
  LET others == {j \in (c + 1)..Len(events) : events[j].type # "onCloseNamespace"}
      stop == IF others = {} THEN Len(events) + 1
              ELSE CHOOSE j \in others : \A k \in others : j <= k
  IN SubSeq(events, c + 1, stop - 1)

\* C14: the bindings an element declares are reported, one onOpenNamespace
\* each and in the order of the declarations, between the element's
\* onOpenTagStart and its onOpenTag, and again, one onCloseNamespace each with
\* the same prefix and uri, directly after the element's onCloseTag; no other
\* namespace event is emitted, and none at all with namespaces off.
NamespaceScopes ==
  LET ev == p.events
  IN /\ \A k \in 1..Len(ev) :
          ev[k].type = "onOpenTag" =>
            LET window == SubSeq(ev, windowStart(ev, k) + 1, k - 1)
                c == matchingClose(ev, k)
            IN /\ bindings(window) = declarations(window)
               /\ c # 0 => bindings(closeRun(ev, c)) = declarations(window)
     /\ \A n \in 1..Len(ev) :
          /\ ev[n].type = "onOpenNamespace" =>
               /\ options.namespaces
               /\ \E k \in (n + 1)..Len(ev) :
                    /\ ev[k].type = "onOpenTag"
                    /\ \A j \in n..(k - 1) : ev[j].type \in TagInterior
          /\ ev[n].type = "onCloseNamespace" =>
               /\ options.namespaces
               /\ \E c \in 1..(n - 1) :
                    /\ ev[c].type = "onCloseTag"
                    /\ \A j \in (c + 1)..n : ev[j].type = "onCloseNamespace"

\* C14 witness: an element that declares a binding has been opened and closed
\* around a child that declares none.
NamespaceScopesWitness ==
  \E n, k, c \in 1..Len(p.events) :
    /\ n < k /\ k + 1 < c /\ c < Len(p.events)
    /\ p.events[n].type = "onOpenNamespace"
    /\ p.events[k].type = "onOpenTag"
    /\ c = matchingClose(p.events, k)
    /\ \E j \in (k + 1)..(c - 1) : p.events[j].type = "onCloseTag"
    /\ p.events[c + 1].type = "onCloseNamespace"
    /\ p.events[c + 1].prefix = p.events[n].prefix
    /\ p.events[c + 1].uri = p.events[n].uri

(***************************************************************************)
(* C15: open and close events.                                             *)
(***************************************************************************)
\* the names on the tag stack, root first
tagNames(q) == [i \in 1..Len(q.tags) |-> q.tags[i].name]

\* C15 (as amended): end() closes no element.  At every moment the elements
\* announced by onOpenTag and not yet by onCloseTag are the elements on the
\* tag stack, an onCloseTag that closes an element carries its name, and so
\* after end() every element has exactly one matching onCloseTag, before
\* onEnd, if and only if no element was left open when the input ended.
ClosedUnlessLeftOpen ==
  LET ev == p.events
  IN /\ openElements(ev, Len(ev)) = tagNames(p)
     /\ \A k \in 1..Len(ev) :
          ev[k].type = "onOpenTag" =>
            LET c == matchingClose(ev, k)
            IN /\ c # 0 => ev[c].name = ev[k].name
               /\ (p.isEnded /\ c # 0) =>
                    \E e \in (c + 1)..Len(ev) : ev[e].type = "onEnd"
               /\ (p.isEnded /\ p.tags = <<>>) => c # 0

\* C15 witness: the input has been ended with no element left open, after a
\* closing tag closed two elements at once.
ClosedUnlessLeftOpenWitness ==
  /\ p.isEnded /\ p.tags = <<>> /\ lastCall.op = "end" /\ ~lastCall.ended
  /\ \E i, j \in 1..Len(p.events) :
       /\ i < j
       /\ p.events[i].type = "onOpenTag" /\ p.events[j].type = "onOpenTag"
       /\ matchingClose(p.events, j) + 1 = matchingClose(p.events, i)

\* C15 (as stated): after end() every element announced by onOpenTag has a
\* matching onCloseTag.
ClosedAtEnd ==
  p.isEnded =>
    \A k \in 1..Len(p.events) :
      p.events[k].type = "onOpenTag" => matchingClose(p.events, k) # 0

(***************************************************************************)
(* C16: unmatched closing tags.                                            *)
(***************************************************************************)
\* the name a closing tag is looked up under
lookupName(name) == IF ~options.strict THEN applyCaseTransform(name) ELSE name

\* C16: wherever the lexer has read `</name' for a name that no element on
\* the tag stack has, reading `>' leaves the tag stack as it is, emits no
\* onCloseTag, puts the lexer in TEXT and leaves `</name>', with the name as
\* it is written in the source, at the end of the text buffer.
UnmatchedClosePreserved ==
  (/\ p.state \in {"CLOSE_TAG", "CLOSE_TAG_SAW_WHITE"} /\ p.tagName # <<>>
   /\ p.error.isNull /\ ~p.isEnded
   /\ \A i \in 1..Len(p.tags) : p.tags[i].name # lookupName(p.tagName))
    => LET preserved(r) ==
             /\ r.thrown = "none"
             /\ r.tags = p.tags
             /\ \A n \in (Len(p.events) + 1)..Len(r.events) :
                  r.events[n].type # "onCloseTag"
             /\ r.state = "TEXT"
             /\ endsWith(r.textNode, <<"<", "/">> \o p.tagName \o <<">">>)
       IN preserved(write(p, <<">">>, 0))

(***************************************************************************)
(* C17: closing tags that match below the top of the stack.                *)
(***************************************************************************)
\* the events of the given type among events[from..], in order
RECURSIVE eventsOfType(_, _, _)
eventsOfType(events, type, from) ==
  IF from > Len(events) THEN <<>>
  ELSE IF events[from].type = type
  THEN <<events[from]>> \o eventsOfType(events, type, from + 1)
  ELSE eventsOfType(events, type, from + 1)

\* the topmost stack index whose element has the name, 0 if there is none
stackIndex(q, name) ==
  LET hit == {i \in 1..Len(q.tags) : q.tags[i].name = name}
  IN IF hit = {} THEN 0 ELSE CHOOSE i \in hit : \A j \in hit : j <= i

\* C17: wherever the lexer has read `</name' for a name that an element
\* below the top of the tag stack has, reading `>' closes the elements from
\* the top of the stack down to that element, one onCloseTag each, the
\* matched element last; "Unexpected close tag" is reported once for each
\* element above the matched one in strict mode and not at all otherwise.
ImplicitClose ==
  LET t == stackIndex(p, lookupName(p.tagName))
      n == Len(p.tags)
  IN (/\ p.state \in {"CLOSE_TAG", "CLOSE_TAG_SAW_WHITE"} /\ p.tagName # <<>>
      /\ p.error.isNull /\ ~p.isEnded
      /\ t # 0 /\ t < n)
       => LET closedDown(r) ==
                LET closes == eventsOfType(r.events, "onCloseTag", Len(p.events) + 1)
                    errors == eventsOfType(r.events, "onError", Len(p.events) + 1)
                IN /\ r.thrown = "none"
                   /\ r.tags = SubSeq(p.tags, 1, t - 1)
                   /\ Len(closes) = n - t + 1
                   /\ \A k \in 1..Len(closes) : closes[k].name = p.tags[n - k + 1].name
                   /\ Cardinality({k \in 1..Len(errors) :
                                     errors[k].message = "Unexpected close tag"})
                        = IF options.strict THEN n - t ELSE 0
          IN closedDown(write(p, <<">">>, 0))

(***************************************************************************)
(* C18: flush splits the text.                                             *)
(***************************************************************************)
RECURSIVE joinSplit(_, _, _)
\* the events in which text (or character data) events that directly follow
\* one another are joined into one event
joinSplit(events, i, acc) ==
  IF i > Len(events) THEN acc
  ELSE IF /\ acc # <<>>
          /\ events[i].type \in {"onText", "onCdata"}
          /\ acc[Len(acc)].type = events[i].type
  THEN joinSplit(events, i + 1,
                 [acc EXCEPT ![Len(acc)].value = @ \o events[i].value])
  ELSE joinSplit(events, i + 1, Append(acc, events[i]))

FlushFrame ==
  LET framed(r) ==
        /\ [r EXCEPT !.textNode = p.textNode, !.cdata = p.cdata, !.events = p.events] = p
        /\ r.textNode = <<>> /\ r.cdata = <<>>
        /\ Len(r.events) >= Len(p.events)
        /\ SubSeq(r.events, 1, Len(p.events)) = p.events
        /\ \A n \in (Len(p.events) + 1)..Len(r.events) :
             r.events[n].type \in {"onText", "onCdata"}
  IN framed(flush(p))

\* C19 witness: flush() has been called with text buffered, outside the lexer
\* state TEXT and with an error latched, and has delivered the text.
FlushFrameWitness ==
  /\ lastCall.op = "flush" /\ lastCall.latched
  /\ p.state \notin {"TEXT", "CDATA"}
  /\ ~p.error.isNull /\ p.tags # <<>>
  /\ p.events[Len(p.events)].type = "onText"

(***************************************************************************)
(* C20: reset.                                                             *)
(***************************************************************************)
\* C20: in whatever state the parser is (in the middle of a construct, with
\* an error latched, ended), reset() emits onReady and nothing else and
\* leaves every field as the constructor leaves it under the same options;
\* the document written to a parser that has been reset produces the events,
\* and comes back the way, it does on a newly constructed parser.
ResetAsNew ==
  LET asNew(r) ==
        /\ r.events = Append(p.events, Event("onReady"))
        /\ restartLog(r) = NewParser
      sameRun(a, b) == a = b
  IN /\ asNew(reset(p))
     /\ lastCall.op = "reset" =>
          sameRun(write(p, input, 0), write(NewParser, input, 0))

\* C20 witness: reset() has been called on a parser that had a latched error
\* and was ended, and the document is written again from its start.
ResetAsNewWitness ==
  /\ lastCall.op = "reset" /\ lastCall.latched /\ lastCall.ended
  /\ resets = 1 /\ fed = <<>> /\ input # <<>>
  /\ p.state = "BEGIN" /\ p.error.isNull /\ ~p.isEnded

(***************************************************************************)
(* C21: what end() leaves behind.                                          *)
(***************************************************************************)
\* the events of `events' after the first n
eventsAfter(events, n) == SubSeq(events, n + 1, Len(events))

runEnd(s, i) ==
  LET other == {j \in i..Len(s) : s[j] # "]"}
  IN IF other = {} THEN Len(s) + 1 ELSE CHOOSE j \in other : \A k \in other : j <= k

brackets(n) == [k \in 1..n |-> "]"]

RECURSIVE cdataSection(_, _, _)
\* the section whose content starts at s[i], read by runs: a run of n >= 2
\* `]' followed by `>' closes it and leaves n - 2 of them; any other run that
\* is followed by a character is content; a run at which s ends is `held'
cdataSection(s, i, body) ==
  IF i > Len(s) THEN [closed |-> FALSE, body |-> body, held |-> 0, next |-> i]
  ELSE IF s[i] # "]" THEN cdataSection(s, i + 1, Append(body, s[i]))
  ELSE LET run(e) ==
             IF e > Len(s)
             THEN [closed |-> FALSE, body |-> body \o brackets(e - i),
                   held |-> e - i, next |-> e]
             ELSE IF s[e] = ">" /\ e - i >= 2
             THEN [closed |-> TRUE, body |-> body \o brackets(e - i - 2),
                   held |-> 0, next |-> e + 1]
             ELSE cdataSection(s, e, body \o brackets(e - i))
       IN run(runEnd(s, i))

RECURSIVE cdataSections(_, _, _)
\* the sections of s from index i on (in the model's documents every
\* `<![CDATA[' stands in element content): the bodies of the closed ones and
\* the section left open, if any
cdataSections(s, i, acc) ==
  IF i + Len(cdataOpen) - 1 > Len(s)
  THEN [bodies |-> acc, unclosed |-> FALSE, body |-> <<>>, held |-> 0]
  ELSE IF SubSeq(s, i, i + Len(cdataOpen) - 1) # cdataOpen
  THEN cdataSections(s, i + 1, acc)
  ELSE LET section(r) ==
             IF r.closed THEN cdataSections(s, r.next, Append(acc, r.body))
             ELSE [bodies |-> acc, unclosed |-> TRUE, body |-> r.body, held |-> r.held]
       IN section(cdataSection(s, i + Len(cdataOpen), <<>>))

\* the bodies the events report for the sections closed by onCloseCdata
RECURSIVE closedBodies(_, _)
closedBodies(events, n) ==
  IF n = 0 THEN <<>>
  ELSE IF events[n].type # "onCloseCdata" THEN closedBodies(events, n - 1)
  ELSE Append(closedBodies(events, n - 1),
              IF events[n - 1].type = "onCdata" THEN events[n - 1].value ELSE <<>>)

\* C22: in a session without flush in which no write has raised, whatever the
\* chunking: every CDATA section closed in the input is delivered with the
\* body the runs of `]' determine (N - 2 of a closing run of N, every other
\* run in full), as a single onCdata just before its onCloseCdata (none for
\* an empty body); for the section still open, the buffer holds that body
\* less the last one or two `]' of a run at which the input stops, whose
\* meaning the next character decides.
CdataRuns ==
  (flushes = 0 /\ ~raisedEver /\ ~lastCall.ended) =>
    LET less(body, held) == SubSeq(body, 1, Len(body) - (IF held > 2 THEN 2 ELSE held))
        stillOpen(r) ==
          IF ~r.unclosed THEN p.cdata = <<>> /\ p.state \notin {"CDATA", "CDATA_ENDING", "CDATA_ENDING_2"}
          ELSE /\ p.state = (IF r.held = 0 THEN "CDATA" ELSE IF r.held = 1 THEN "CDATA_ENDING"
                             ELSE "CDATA_ENDING_2")
               /\ IF p.isEnded
                  THEN less(r.body, r.held) # <<>> =>
                         \E k \in 1..Len(p.events) :
                           /\ p.events[k].type = "onCdata"
                           /\ p.events[k].value = less(r.body, r.held)
                           /\ \A m \in k..Len(p.events) : p.events[m].type # "onCloseCdata"
                  ELSE p.cdata = less(r.body, r.held)
        agree(r) == closedBodies(p.events, Len(p.events)) = r.bodies /\ stillOpen(r)
    IN agree(cdataSections(fed, 1, <<>>))

\* C22 witness: a section with a lone `]', a run of one before `>' and a
\* closing run of four has been delivered and the document closed.
CdataRunsWitness ==
  /\ flushes = 0 /\ ~raisedEver /\ ~p.isEnded /\ input = <<>>
  /\ \E k \in 2..Len(p.events) :
       /\ p.events[k].type = "onCloseCdata"
       /\ p.events[k - 1].type = "onCdata"
       /\ p.events[k - 1].value = <<"x", "]", "y", "]", ">", "]", "]">>
  /\ p.events[Len(p.events)].type = "onCloseTag"

(***************************************************************************)
(* C23: duplicate attributes.                                              *)
(***************************************************************************)
\* the index of the onOpenTagStart whose tag the event at k belongs to
tagStartOf(events, k) ==
  LET starts == {i \in 1..k : events[i].type = "onOpenTagStart"}
  IN IF starts = {} THEN 0 ELSE CHOOSE i \in starts : \A j \in starts : j <= i

\* C23: for every element at most one onAttribute is emitted per attribute
\* name: no two onAttribute events of one tag carry the same name, and the
\* attributes of its onOpenTag hold, under that name, the value of that one
\* event (the first occurrence in the source).
DuplicateAttributes ==
  LET ev == p.events
  IN /\ \A i, j \in 1..Len(ev) :
          (/\ i < j /\ ev[i].type = "onAttribute" /\ ev[j].type = "onAttribute"
           /\ tagStartOf(ev, i) = tagStartOf(ev, j))
            => ev[i].name # ev[j].name
     /\ \A i, k \in 1..Len(ev) :
          (/\ i < k /\ ev[i].type = "onAttribute" /\ ev[k].type = "onOpenTag"
           /\ tagStartOf(ev, i) = tagStartOf(ev, k)
           /\ \A m \in 1..(i - 1) : ~(/\ ev[m].type = "onAttribute"
                                       /\ ev[m].name = ev[i].name
                                       /\ tagStartOf(ev, m) = tagStartOf(ev, i)))
            => \E a \in 1..Len(ev[k].attributes) :
                 /\ ev[k].attributes[a].name = ev[i].name
                 /\ ev[k].attributes[a].value = ev[i].value

(***************************************************************************)
(* C24: invalid character entities.                                        *)
(***************************************************************************)
\* names referred to that may be in no table: a name, and numeric references
\* that are out of range, signed, not a number, or without digits
UndefinedNames ==
  { <<"q">>, <<"c", "o", "p", "y">>, <<"#", "-", "1">>, <<"#", "x">>,
    <<"#", "N", "a", "N">>, <<"#", "1", "1", "1", "4", "1", "1", "2">> }

\* neither defined in the active table nor a valid numeric reference
isInvalidEntity(name) ==
  /\ ~hasEntity(name) /\ ~hasEntity(toLowerCase(name))
  /\ wasmParseEntity(name) = PARSE_ERROR

\* C24: wherever a reference can start, reading `&name;' for a name that is
\* neither defined nor a valid numeric reference returns with the soft error
\* "Invalid character entity" reported, the lexer back in the state it was in
\* and the literal `&name;' at the end of the enclosing buffer.
InvalidEntityLiteral ==
  (p.state \in ReferenceStates /\ p.error.isNull /\ ~p.isEnded) =>
    \A name \in UndefinedNames :
      LET literal(r) ==
            /\ r.thrown = "none"
            /\ r.state = p.state
            /\ r.entity = <<>>
            /\ endsWith(bufferOf(r, p.state), ref(name))
            /\ \E n \in (Len(p.events) + 1)..Len(r.events) :
                 r.events[n].type = "onError"
                   /\ r.events[n].message = "Invalid character entity"
            /\ \A n \in (Len(p.events) + 1)..Len(r.events) :
                 r.events[n].type \in {"onText", "onError"}
      IN isInvalidEntity(name) => literal(write(p, ref(name), 0))

(***************************************************************************)
(* C25: numeric character references.                                      *)
(***************************************************************************)
\* the bodies of the numeric references tried: valid ones in both radices
\* (with leading zeros, upper-case hex digits, the largest code point, a
\* surrogate) and invalid ones (out of range, signed, not a number, without
\* digits, with a separator)
NumericReferences ==
  { <<"#", "6", "0">>, <<"#", "0", "6", "5">>, <<"#", "x", "4", "1">>,
    <<"#", "X", "4", "a">>, <<"#", "x", "0", "7", "E">>,
    <<"#", "1", "1", "1", "4", "1", "1", "1">>, <<"#", "x", "D", "8", "0", "0">>,
    <<"#", "1", "1", "1", "4", "1", "1", "2">>, <<"#", "-", "1">>, <<"#", "-", "0">>,
    <<"#", "N", "a", "N">>, <<"#", "x">>, <<"#", "1", "_", "0">>, <<"#", "6", "a">> }

\* the first index of ds that does not hold `0'
runStart(ds) ==
  LET other == {j \in 1..Len(ds) : ds[j] # "0"}
  IN IF other = {} THEN Len(ds) + 1 ELSE CHOOSE j \in other : \A k \in other : j <= k

RECURSIVE radixValue(_, _, _, _)
\* the number the digits ds[i..] denote in radix base, after acc
radixValue(ds, base, i, acc) ==
  IF i > Len(ds) THEN acc
  ELSE radixValue(ds, base, i + 1, acc * base + charToDigit(ds[i], base))

\* the code point the stated rule gives the reference body raw, -1 if the
\* rule calls it invalid: the digits after `#' or `#x', leading zeros
\* stripped, are all digits of the radix (so that the number written back in
\* that radix gives the same digits) and denote a number in 0..0x10FFFF
statedCodePoint(raw) ==
  LET lower == toLowerCase(raw)
      hex == Len(lower) >= 2 /\ lower[2] = "x"
      base == IF hex THEN 16 ELSE 10
      ds == SubSeq(lower, IF hex THEN 3 ELSE 2, Len(lower))
      stripped == SubSeq(ds, runStart(ds), Len(ds))
      number == radixValue(stripped, base, 1, 0)
  IN IF stripped = <<>> \/ \E i \in 1..Len(stripped) : charToDigit(stripped[i], base) < 0
     THEN -1
     ELSE IF number > 1114111 THEN -1 ELSE number

\* C25: wherever a reference can start, a numeric reference is replaced by
\* its code point, without a diagnostic, if and only if the stated rule
\* accepts it; every other one is reported as "Invalid character entity" and
\* left in the buffer as the literal text `&#...;'.
NumericRule ==
  (p.state \in ReferenceStates /\ p.error.isNull /\ ~p.isEnded) =>
    \A raw \in NumericReferences :
      LET replaced(r) ==
            /\ r.thrown = "none"
            /\ r.state = p.state
            /\ endsWith(bufferOf(r, p.state), <<fromCodePoint(statedCodePoint(raw))>>)
            /\ \A n \in (Len(p.events) + 1)..Len(r.events) :
                 r.events[n].message # "Invalid character entity"
          literal(r) ==
            /\ r.thrown = "none"
            /\ r.state = p.state
            /\ endsWith(bufferOf(r, p.state), ref(raw))
            /\ \E n \in (Len(p.events) + 1)..Len(r.events) :
                 r.events[n].message = "Invalid character entity"
          settled(r) == IF statedCodePoint(raw) >= 0 THEN replaced(r) ELSE literal(r)
      IN settled(write(p, ref(raw), 0))

(***************************************************************************)
(* C26: the entity table.                                                  *)
(***************************************************************************)
\* names the extended table defines and the predefined table does not
ExtendedNames == { <<"c", "o", "p", "y">>, <<"n", "b", "s", "p">> }

\* the replacement text of name in the extended table
extendedValue(name) ==
  HTML_NAMED_CHARACTER_ENTITIES[
    CHOOSE i \in 1..Len(HTML_NAMED_CHARACTER_ENTITIES) :
      HTML_NAMED_CHARACTER_ENTITIES[i][1] = name][2]

\* reading `&name;' reports the name as an invalid character entity
readAsInvalid(q, name) ==
  LET invalid(r) ==
        \E n \in (Len(q.events) + 1)..Len(r.events) :
          r.events[n].type = "onError" /\ r.events[n].message = "Invalid character entity"
  IN invalid(write(q, ref(name), 0))

\* reading `&name;' reports no "Invalid character entity" and, when the call
\* returns, has put the replacement text of the extended table at the end of
\* the enclosing buffer (with unparsedEntities on the text is written, and
\* that nested call raises if a diagnostic was latched on the way)
readAsExtended(q, name) ==
  LET resolved(r) ==
        /\ r.thrown \in {"none", "error"}
        /\ r.thrown = "error" => options.unparsedEntities
        /\ r.thrown = "none" =>
             r.state = q.state /\ endsWith(bufferOf(r, q.state), extendedValue(name))
        /\ \A n \in (Len(q.events) + 1)..Len(r.events) :
             r.events[n].message # "Invalid character entity"
  IN resolved(write(q, ref(name), 0))

TransparentEntities ==
  {i \in 1..Len(XML_PREDEFINED_ENTITIES) :
     \A k \in 1..Len(XML_PREDEFINED_ENTITIES[i][2]) :
       XML_PREDEFINED_ENTITIES[i][2][k] \notin {"<", "&"}}

\* the text would end the buffer being read in lexer state q.state: the
\* quote that closes a quoted attribute value, or whitespace or `>' in an
\* unquoted one
endsBuffer(q, text) ==
  \/ q.state = "ATTRIBUTE_VALUE_QUOTED" /\ \E k \in 1..Len(text) : text[k] = q.quoteChar
  \/ q.state = "ATTRIBUTE_VALUE_UNQUOTED" /\ \E k \in 1..Len(text) : isAttributeEnd(text[k])

\* the parser without what only records how far the input has been read
unplaced(q) ==
  [q EXCEPT !.char = "", !.position = 0, !.line = 0, !.column = 0,
            !.error = [@ EXCEPT !.line = 0, !.column = 0],
            !.events = unpositioned(@)]

\* C27 (as amended): with unparsedEntities off, wherever the lexer reads a
\* reference (in text or in an attribute value) and for every predefined
\* entity X whose replacement text contains no `<' or `&' and would not end
\* the buffer being read, reading `&X;' and reading the replacement text
\* leave the same parser and deliver the same events, the recorded positions
\* apart; so replacing such references in an input changes no event.
EntityTransparency ==
  (/\ ~options.unparsedEntities
   /\ p.state \in ReferenceStates /\ p.error.isNull /\ ~p.isEnded) =>
    \A i \in TransparentEntities :
      LET same(r, s) == unplaced(r) = unplaced(s) /\ r.thrown = "none"
      IN ~endsBuffer(p, XML_PREDEFINED_ENTITIES[i][2]) =>
           same(write(p, ref(XML_PREDEFINED_ENTITIES[i][1]), 0),
                write(p, XML_PREDEFINED_ENTITIES[i][2], 0))

\* C27 witness: with unparsedEntities off the session has read `&gt;' in the
\* text of an element whose attribute value, in single quotes, held `&quot;'.
EntityTransparencyWitness ==
  /\ ~options.unparsedEntities /\ ~raisedEver
  /\ lastCall.op = "write" /\ lastCall.outcome = "returned"
  /\ endsWith(fed, ref(<<"g", "t">>))
  /\ p.state = "TEXT" /\ p.textNode = <<"x", ">">>
  /\ Len(p.tags) = 1 /\ Len(p.tags[1].attributes) = 1
  /\ p.tags[1].attributes[1].value = <<"\"">>

\* C27 (as stated): the same for every such entity wherever the reference
\* occurs, that is in every lexer state in which a reference is read.
EntityTransparencyAnywhere ==
  (/\ ~options.unparsedEntities
   /\ p.state \in ReferenceStates /\ p.error.isNull /\ ~p.isEnded) =>
    \A i \in TransparentEntities :
      LET same(r, s) == unplaced(r).events = unplaced(s).events /\ r.tags = s.tags
                        /\ r.state = s.state /\ bufferOf(r, p.state) = bufferOf(s, p.state)
      IN same(write(p, ref(XML_PREDEFINED_ENTITIES[i][1]), 0),
              write(p, XML_PREDEFINED_ENTITIES[i][2], 0))

(***************************************************************************)
(* C28: an unencoded `<'.                                                  *)
(***************************************************************************)
\* whitespace between `<' and the character after it
Paddings == { <<>>, <<" ">>, <<" ", " ">>, <<"\n">>, <<" ", " ", " ">> }

\* characters that are none of `!', `?', `/', whitespace or a NameStart
Offending == { "<", "=", "1" }

\* in lexer state TEXT of q a `<' is read as the start of markup
startsMarkup(q) ==
  q.state = "TEXT" /\ ~(q.hasSeenRoot /\ q.isRootClosed /\ ~options.strict)

\* C28: when `<' is followed by optional whitespace and a character that
\* cannot start markup, the lexer is back in TEXT and the text buffer ends
\* with exactly the characters read since the `<': the `<', the whitespace
\* and the offending character, in source order, with trackPosition on or off.
UnencodedVerbatim ==
  (startsMarkup(p) /\ p.error.isNull /\ ~p.isEnded) =>
    \A ws \in Paddings : \A c \in Offending :
      LET verbatim(r) ==
            /\ r.thrown = "none"
            /\ r.state = "TEXT"
            /\ r.textNode = (IF Len(r.events) = Len(p.events) THEN p.textNode ELSE <<>>)
                              \o <<"<">> \o ws \o <<c>>
      IN verbatim(write(p, <<"<">> \o ws \o <<c>>, 0))

(***************************************************************************)
(* The buffer manager: sessions with a region near MAX_BUFFER_LENGTH.      *)
(***************************************************************************)
\* characters of the region still to be written when a session starts
TailLength == 3

Xs(n) == [k \in 1..n |-> "x"]

\* the buffers a session fills
Regions == {"textNode", "cdata", "comment", "attributeValue"}

\* the markup that opens the region held by buffer, and the one that ends it
regionPrefix(buffer) ==
  IF buffer = "textNode" THEN open("r")
  ELSE IF buffer = "cdata" THEN open("r") \o cdataOpen
  ELSE IF buffer = "comment" THEN open("r") \o <<"<", "!", "-", "-">>
  ELSE <<"<", "r", " ", "a", "=", "\"">>

regionSuffix(buffer) ==
  IF buffer = "textNode" THEN <<"<">>
  ELSE IF buffer = "cdata" THEN <<"]", "]", ">">>
  ELSE IF buffer = "comment" THEN <<"-", "-", ">">>
  ELSE <<"\"", ">">>

\* the parser after the single call write(prefix + "x" * n): each of TEXT,
\* CDATA, COMMENT and ATTRIBUTE_VALUE_QUOTED appends an `x' to its buffer
\* and advances the position when it is tracked, and the call ends with the
\* buffer check when the position has reached bufferCheckPosition
filled(buffer, n) ==
  LET fill(q) ==
        [q EXCEPT ![buffer] = @ \o Xs(n),
                  !.position = IF options.trackPosition THEN @ + n ELSE @,
                  !.column = IF options.trackPosition THEN @ + n ELSE @]
  IN afterLoop(fill(write(NewParser, regionPrefix(buffer), 0)))

\* a fill that leaves the buffer just short of MAX_BUFFER_LENGTH, and one
\* that takes it past MAX_BUFFER_LENGTH within the one call
FillLengths == {MAX_BUFFER_LENGTH - 2, MAX_BUFFER_LENGTH + 1}

\* a short fill, for which the call is evaluated character by character
ShortFill == 5

BufferOptions ==
  { DefaultOptions,
    [DefaultOptions EXCEPT !.trackPosition = TRUE] }

\* a session that has written, in one call, the start of a document up to
\* the first characters of one region, and goes on with the rest of it
BufferInit ==
  /\ options \in BufferOptions
  /\ ENTITIES = (IF options.strictEntities THEN XML_PREDEFINED_ENTITIES
                 ELSE HTML_NAMED_CHARACTER_ENTITIES) \o UserEntities
  /\ \E buffer \in Regions, n \in FillLengths :
       /\ p = filled(buffer, n)
       /\ fed = regionPrefix(buffer) \o Xs(n)
       /\ input = Xs(TailLength) \o regionSuffix(buffer)
  /\ lastCall = Call("write", "returned", NewParser)
  /\ raisedEver = FALSE
  /\ flushes = 0
  /\ reported = FALSE
  /\ resets = 0
  /\ decoder = <<>>
  /\ peer = [p |-> NewParser, input |-> <<>>]
  /\ alone = Alone(NewParser, NewParser)

BufferNext ==
  \/ \E k \in 1..MaxChunk : Write(k)
  \/ End
  \/ Flush
  \/ Resume

BufferSpec == BufferInit /\ [][BufferNext]_vars

(***************************************************************************)
(* C29: what the buffer check does with an overlong buffer.                *)
(***************************************************************************)
\* the buffer that the session fills
regionOf(text) ==
  CHOOSE buffer \in Regions :
    SubSeq(text, 1, Len(regionPrefix(buffer)) + 1) = Append(regionPrefix(buffer), "x")

\* the events the buffer check adds to those of q
checkEvents(q) == eventsAfter(checkBufferLength(q).events, Len(q.events))

isOverflowError(e, buffer) ==
  e.type = "onError" /\ e.message = "Max buffer length exceeded" /\ e.name = <<buffer>>

\* C29: the buffer check, on every parser of a session: an overlong textNode
\* is delivered whole as an onText and emptied, an overlong cdata is
\* delivered as an onCdata and emptied, any other overlong buffer is kept and
\* reported by the soft error "Max buffer length exceeded" naming it, and
\* when no buffer is overlong nothing is delivered.  When positions are
\* tracked the check has been made by the time write returns: textNode and
\* cdata are then no longer than MAX_BUFFER_LENGTH and an overlong other
\* buffer has been reported.  (The first conjunct relates the parsers the
\* sessions start from to write.)
BufferPolicy ==
  /\ \A buffer \in Regions :
       filled(buffer, ShortFill) = write(NewParser, regionPrefix(buffer) \o Xs(ShortFill), 0)
  /\ LET checked(r) ==
           /\ Len(p.textNode) > MAX_BUFFER_LENGTH =>
                /\ r.textNode = <<>>
                /\ checkEvents(p) = <<[Event("onText") EXCEPT !.value = p.textNode]>>
           /\ Len(p.cdata) > MAX_BUFFER_LENGTH =>
                /\ r.cdata = <<>>
                /\ checkEvents(p) = <<[Event("onCdata") EXCEPT !.value = p.cdata]>>
           /\ \A i \in 1..Len(BUFFERS) :
                (BUFFERS[i] \notin {"textNode", "cdata"}
                   /\ Len(p[BUFFERS[i]]) > MAX_BUFFER_LENGTH)
                  => /\ r[BUFFERS[i]] = p[BUFFERS[i]]
                     /\ Len(checkEvents(p)) = 1
                     /\ isOverflowError(checkEvents(p)[1], BUFFERS[i])
                     /\ ~r.error.isNull
           /\ (\A i \in 1..Len(BUFFERS) : Len(p[BUFFERS[i]]) <= MAX_BUFFER_LENGTH)
                => r.events = p.events /\ r.textNode = p.textNode /\ r.cdata = p.cdata
     IN checked(checkBufferLength(p))
  /\ (options.trackPosition /\ lastCall.op = "write" /\ lastCall.outcome = "returned"
        /\ ~lastCall.ended) =>
       /\ Len(p.textNode) <= MAX_BUFFER_LENGTH
       /\ Len(p.cdata) <= MAX_BUFFER_LENGTH
       /\ \A i \in 1..Len(BUFFERS) :
            Len(p[BUFFERS[i]]) > MAX_BUFFER_LENGTH
              => isOverflowError(p.events[Len(p.events)], BUFFERS[i])

\* C29 witness: a write has returned after its buffer check delivered an
\* overlong textNode as a partial onText: the text buffer is empty and the
\* lexer is still in the text.
BufferPolicyWitness ==
  /\ options.trackPosition
  /\ lastCall.op = "write" /\ lastCall.outcome = "returned"
  /\ p.state = "TEXT" /\ p.textNode = <<>> /\ p.tags # <<>>
  /\ p.events[Len(p.events)].type = "onText"
  /\ Len(p.events[Len(p.events)].value) > MAX_BUFFER_LENGTH
  /\ input # <<>>

(***************************************************************************)
(* C30: the memory bound of a text or CDATA region.                        *)
(***************************************************************************)
\* the characters of the region written so far
regionWritten ==
  LET buffer == regionOf(fed)
      written == Len(fed) - Len(regionPrefix(buffer))
  IN IF input = <<>> THEN written - Len(regionSuffix(buffer)) ELSE written

\* ceil(n / size)
bufferfuls(n, size) == (n + size - 1) \div size

\* the number of events of a type among the first n
RECURSIVE deliveries(_, _, _)
deliveries(events, type, n) ==
  IF n = 0 THEN 0
  ELSE deliveries(events, type, n - 1) + (IF events[n].type = type THEN 1 ELSE 0)

\* C30: in a session that writes a text or CDATA region longer than
\* MAX_BUFFER_LENGTH, with positions tracked or not: whenever write has
\* returned, the region's buffer holds at most MAX_BUFFER_LENGTH characters
\* (what went beyond has been delivered by the buffer check of that call),
\* and once the end of the region has been written the region is delivered
\* in ceil(N / MAX_BUFFER_LENGTH) events, counting the one that the rest
\* still buffered makes (or in fewer when the events carry the up to MaxChunk
\* characters that a call adds before its check).
MemoryBound ==
  (regionOf(fed) \in {"textNode", "cdata"} /\ ~raisedEver /\ flushes = 0 /\ ~p.isEnded
     /\ lastCall.op = "write" /\ lastCall.outcome = "returned" /\ ~lastCall.ended)
    => /\ Len(p[regionOf(fed)]) <= MAX_BUFFER_LENGTH
       /\ input = <<>> =>
            LET delivered ==
                  deliveries(p.events,
                             IF regionOf(fed) = "cdata" THEN "onCdata" ELSE "onText",
                             Len(p.events))
                    + (IF p[regionOf(fed)] # <<>> THEN 1 ELSE 0)
            IN /\ delivered <= bufferfuls(regionWritten, MAX_BUFFER_LENGTH)
               /\ delivered >= bufferfuls(regionWritten, MAX_BUFFER_LENGTH + MaxChunk)

(***************************************************************************)
(* C31: bindings of the reserved prefixes.                                 *)
(***************************************************************************)
\* the values tried for a binding of a reserved prefix
BoundUris == {NS_xml, NS_xmlns, <<"u">>}

\* the attribute xmlns:local="uri"
bindingOf(local, uri) == S_xmlns \o <<":">> \o local \o <<"=", "\"">> \o uri \o <<"\"">>

\* the element being opened holds the binding in its own namespace map
holdsBinding(q, local, uri) ==
  /\ q.tag.ns > 0
  /\ q.tag.ns # parentNs(q)
  /\ \E i \in 1..Len(q.nsHeap[q.tag.ns].own) : q.nsHeap[q.tag.ns].own[i] = <<local, uri>>

\* reading the attribute reports exactly when the uri is not the reserved
\* one, and stores the binding exactly when it does not report
bindsExactly(q, local, reserved, uri) ==
  LET read(r) ==
        /\ r.thrown = "none"
        /\ (errorCount(r.events) > errorCount(q.events)) <=> (uri # reserved)
        /\ holdsBinding(r, local, uri) <=> (uri = reserved)
  IN read(write(q, bindingOf(local, uri), 0))

\* C31: with namespaces on, wherever an attribute can start in an open tag,
\* xmlns:xml="U" is reported if and only if U is not NAMESPACES.xml, and
\* xmlns:xmlns="U" if and only if U is not NAMESPACES.xmlns; a rejected
\* binding is not in the namespace map of the element and an accepted one is.
ReservedBindings ==
  (options.namespaces /\ p.state = "ATTRIBUTE" /\ p.error.isNull /\ ~p.isEnded) =>
    \A uri \in BoundUris :
      /\ bindsExactly(p, S_xml, NS_xml, uri)
      /\ bindsExactly(p, S_xmlns, NS_xmlns, uri)

(***************************************************************************)
(* C32: comments in the internal subset of a doctype declaration.          *)
(***************************************************************************)
\* the text of a comment of the subset, and the rest of the subset after it
SubsetComment == <<"c", "'", "]">>

SubsetRest == <<" ", "x">>

commentOf(text) == <<"<", "!", "-", "-">> \o text \o <<"-", "-", ">">>

\* reading a comment and then the rest of the subset at q: the comment is
\* delivered at once and leaves the doctype as it was and the lexer in
\* DOCTYPE_DTD, and `]>' then delivers the one onDoctype, with the subset
\* less the comment
commentInSubset(q) ==
  LET closed(r) ==
        LET ended(t) ==
              /\ t.thrown = "none"
              /\ t.state = "TEXT"
              /\ t.hasDoctype
              /\ t.events = Append(r.events,
                                   [Event("onDoctype")
                                      EXCEPT !.value = q.doctype \o SubsetRest \o <<"]">>])
        IN /\ r.thrown = "none"
           /\ r.state = "DOCTYPE_DTD"
           /\ r.doctype = q.doctype
           /\ r.events = Append(q.events, [Event("onComment") EXCEPT !.value = SubsetComment])
           /\ ended(write(r, SubsetRest \o <<"]", ">">>, 0))
  IN closed(write(q, commentOf(SubsetComment), 0))

DashedComment == <<" ", "a", " ", "-", "-", " ", "b", " ">>

\* the events that reading the text adds to those of q
eventsOfWrite(q, text) == eventsAfter(write(q, text, 0).events, Len(q.events))

\* C33: wherever markup can start in the text of an element, with the text
\* options off, `<!-- a -- b -->' produces exactly one onComment, with the
\* text ` a -- b '; in lenient mode it produces nothing else, and in strict
\* mode also the diagnostic "Malformed comment".
DashesInComment ==
  (p.state = "TEXT" /\ p.tags # <<>> /\ p.textNode = <<>> /\ p.error.isNull /\ ~p.isEnded
     /\ ~options.trim /\ ~options.normalize)
    => LET read(added) ==
             /\ \E n \in 1..Len(added) :
                  /\ added[n].type = "onComment"
                  /\ added[n].value = DashedComment
             /\ \A m, n \in 1..Len(added) :
                  (added[m].type = "onComment" /\ added[n].type = "onComment") => m = n
             /\ \A n \in 1..Len(added) :
                  \/ added[n].type = "onComment"
                  \/ /\ options.strict
                     /\ added[n].type = "onError"
                     /\ added[n].message = "Malformed comment"
       IN read(eventsOfWrite(p, commentOf(DashedComment)))

(***************************************************************************)
(* Byte chunks: two instances written in turn.                             *)
(***************************************************************************)
\* Bytes are written as the character they encode (0x00..0x7F) or as their
\* two hex digits: 0xC3 starts a two-byte sequence, 0xA9 continues one, and
\* 0xC3 0xA9 encodes U+00E9.  A decoded character beyond ASCII is written as
\* its code point.
LeadBytes == {"C3"}
ContinuationBytes == {"A9"}
REPLACEMENT == "U+FFFD"

\* the character that a lead byte and a continuation byte encode
decoded(lead, byte) == "U+E9"

RECURSIVE decodeFrom(_, _, _, _)
\* TextDecoder.decode(bytes, { stream: true }) on a decoder holding pending:
\* the text delivered and the bytes held back for the next call
decodeFrom(pending, bytes, i, text) ==
  IF i > Len(bytes) THEN [text |-> text, decoder |-> pending]
  ELSE LET b == bytes[i]
           go(held, next, out) == decodeFrom(held, bytes, next, out)
           \* the bytes held back, the index read next and the text delivered
           read ==
             IF pending # <<>>
             THEN IF b \in ContinuationBytes
                  THEN <<<<>>, i + 1, Append(text, decoded(pending[1], b))>>
                  \* not a continuation: the sequence is replaced and the byte read again
                  ELSE <<<<>>, i, Append(text, REPLACEMENT)>>
             ELSE IF b \in LeadBytes THEN <<<<b>>, i + 1, text>>
             ELSE IF b \in ContinuationBytes THEN <<<<>>, i + 1, Append(text, REPLACEMENT)>>
             ELSE <<<<>>, i + 1, Append(text, b)>>
       IN go(read[1], read[2], read[3])

decode(pending, bytes) == decodeFrom(pending, bytes, 1, <<>>)

\* parser.write(bytes) on instance q, decoding with a decoder that holds
\* pending: the parser after the call and the decoder after it
writeBytes(q, pending, bytes) ==
  LET result(w, held) == [p |-> w, decoder |-> held]
      written(d) == result(write(q, d.text, 0), d.decoder)
  IN written(decode(pending, bytes))

ByteDocuments ==
  { <<"<", "a", ">", "C3", "A9", "<", "/", "a", ">">>,
    <<"<", "b", ">", "x", "y", "<", "/", "b", ">">>,
    <<"<", "c", " ", "d", "=", "'", "C3", "A9", "'", "/", ">">> }

ByteOptions == {DefaultOptions, StrictOptions}

\* two new instances, each with a document to be written as Uint8Array chunks
ByteInit ==
  /\ options \in ByteOptions
  /\ ENTITIES = (IF options.strictEntities THEN XML_PREDEFINED_ENTITIES
                 ELSE HTML_NAMED_CHARACTER_ENTITIES) \o UserEntities
  /\ p = NewParser
  /\ input \in ByteDocuments
  /\ fed = <<>>
  /\ lastCall = Call("new", "returned", NewParser)
  /\ raisedEver = FALSE
  /\ flushes = 0
  /\ reported = FALSE
  /\ resets = 0
  /\ decoder = <<>>
  /\ \E bytes \in ByteDocuments : peer = [p |-> NewParser, input |-> bytes]
  /\ alone = Alone(NewParser, NewParser)

\* parser.write(chunk) with the next k bytes of an instance's document: of the
\* first instance, whose calls the session records, or of the second one
WriteBytes(first, k) ==
  LET bytes == IF first THEN input ELSE peer.input
      single == IF first THEN alone.first ELSE alone.second
      called(chunk, r, s) ==
        /\ decoder' = r.decoder
        /\ alone' = IF first THEN [alone EXCEPT !.first = s] ELSE [alone EXCEPT !.second = s]
        /\ IF first
           THEN /\ p' = [r.p EXCEPT !.thrown = "none"]
                /\ lastCall' = Call("write", IF r.p.thrown = "none" THEN "returned"
                                             ELSE IF r.p.thrown = "error" THEN "raised"
                                             ELSE r.p.thrown, p)
                /\ raisedEver' = (raisedEver \/ r.p.thrown # "none")
                /\ reported' = (reported \/ errorCount(r.p.events) > errorCount(p.events))
                /\ input' = SubSeq(input, k + 1, Len(input))
                /\ fed' = fed \o chunk
                /\ UNCHANGED peer
           ELSE /\ peer' = [p |-> r.p, input |-> SubSeq(peer.input, k + 1, Len(peer.input))]
                /\ UNCHANGED <<p, input, fed, lastCall, raisedEver, reported>>
      calling(chunk, q) ==
        called(chunk, writeBytes(q.p, q.decoder, chunk), writeBytes(single.p, single.decoder, chunk))
  IN /\ k <= Len(bytes)
     /\ IF first THEN ~raisedEver ELSE peer.p.error.isNull
     /\ calling(SubSeq(bytes, 1, k),
                [p |-> IF first THEN p ELSE peer.p, decoder |-> decoder])
     /\ UNCHANGED <<options, ENTITIES, flushes, resets>>

ByteNext == \E first \in BOOLEAN, k \in 1..MaxChunk : WriteBytes(first, k)

ByteSpec == ByteInit /\ [][ByteNext]_vars

(***************************************************************************)
(* C34: instances share no state.                                          *)
(***************************************************************************)
\* C34: however the writes of two instances are interleaved and wherever
\* their byte chunks are cut, each instance has delivered the events that it
\* delivers when its chunks are written with no other instance in the
\* program.
InstancesIndependent ==
  /\ p.events = alone.first.p.events
  /\ peer.p.events = alone.second.p.events

(***************************************************************************)
(* C35: position, line and column.                                         *)
(***************************************************************************)
\* the line breaks among the first n characters of text
RECURSIVE lineBreaks(_, _)
lineBreaks(text, n) ==
  IF n = 0 THEN 0 ELSE lineBreaks(text, n - 1) + (IF text[n] = "\n" THEN 1 ELSE 0)

\* the characters of text after its last line break
RECURSIVE sinceLineBreak(_, _)
sinceLineBreak(text, n) ==
  IF n = 0 \/ text[n] = "\n" THEN 0 ELSE sinceLineBreak(text, n - 1) + 1

\* C35: while the parser reads what it is given (no call has raised and it
\* is not ended): with trackPosition on, position is the number of characters
\* written, line the number of `\n' among them and column the number of
\* characters since the last `\n'; with trackPosition off the three are 0.
PositionTracks ==
  (~raisedEver /\ ~p.isEnded) =>
    IF options.trackPosition
    THEN /\ p.position = Len(fed)
         /\ p.line = lineBreaks(fed, Len(fed))
         /\ p.column = sinceLineBreak(fed, Len(fed))
    ELSE p.position = 0 /\ p.line = 0 /\ p.column = 0

(***************************************************************************)
(* C36: the scheduling of the buffer check.                                *)
(***************************************************************************)
\* C36: whenever a write has returned, for positions tracked or not, every
\* buffer that is delivered in parts holds at most MAX_BUFFER_LENGTH
\* characters, and every other buffer holds at most MAX_BUFFER_LENGTH
\* characters or the check of that write has reported it: no overrun is
\* left unseen by the check.
NoMissedOverrun ==
  (lastCall.op = "write" /\ lastCall.outcome = "returned" /\ ~lastCall.ended
     /\ ~lastCall.latched)
    => \A i \in 1..Len(BUFFERS) :
         Len(p[BUFFERS[i]]) > MAX_BUFFER_LENGTH
           => /\ BUFFERS[i] \notin {"textNode", "cdata"}
              /\ isOverflowError(p.events[Len(p.events)], BUFFERS[i])

(***************************************************************************)
(* C37: resolution of prefixes.                                            *)
(***************************************************************************)
\* prefixes tried on an element: declared by some documents, never declared,
\* reserved, and names of inherited properties
TriedPrefixes == {<<"p">>, <<"q">>, S_xml} \cup INHERITED

RECURSIVE declaredUri(_, _, _)
\* the uri that the xmlns declarations of the open elements, innermost
\* first, and then the two pre-seeded prefixes give to prefix (<<>>: none)
declaredUri(heap, id, prefix) ==
  IF id <= 0
  THEN IF prefix = S_xml THEN NS_xml ELSE IF prefix = S_xmlns THEN NS_xmlns ELSE <<>>
  ELSE LET own == heap[id].own
           hit == {i \in 1..Len(own) : own[i][1] = prefix}
       IN IF hit # {} THEN own[CHOOSE i \in hit : TRUE][2]
          ELSE declaredUri(heap, heap[id].parent, prefix)

\* the element <prefix:a/>
prefixed(prefix) == <<"<">> \o prefix \o <<":", "a", "/", ">">>

\* the onOpenTag among events, and whether an unbound prefix was reported
openTagOf(events) == events[CHOOSE n \in 1..Len(events) : events[n].type = "onOpenTag"]

reportsUnbound(events) ==
  \E n \in 1..Len(events) :
    events[n].type = "onError" /\ events[n].message = "Unbound namespace prefix"

\* C37: with namespaces on, wherever an element can start, the prefix of an
\* element resolves to the uri that a declaration on an open ancestor or the
\* pre-seeding gives it, without a diagnostic; any other prefix is reported
\* as "Unbound namespace prefix" and the element has the prefix as its uri.
ResolvesOnlyBound ==
  (options.namespaces /\ p.state = "TEXT" /\ p.error.isNull /\ ~p.isEnded
     /\ (p.tags # <<>> \/ ~p.hasSeenRoot))
    => \A prefix \in TriedPrefixes :
         LET name == IF options.strict THEN prefix ELSE applyCaseTransform(prefix)
             uri == declaredUri(p.nsHeap, parentNs(p), name)
             resolved(added) ==
               /\ \E n \in 1..Len(added) : added[n].type = "onOpenTag"
               /\ IF uri # <<>>
                  THEN openTagOf(added).uri = uri /\ ~reportsUnbound(added)
                  ELSE openTagOf(added).uri = name /\ reportsUnbound(added)
         IN resolved(eventsOfWrite(p, prefixed(prefix)))

(***************************************************************************)
(* C38: quoted literals in an SGML declaration.                            *)
(***************************************************************************)
\* the quote characters of text, in order
quotesOf(text) == SelectSeq(text, LAMBDA c : isQuote(c))

\* C38: when the lexer is in SGML_DECLARATION_QUOTED and the declaration
\* read so far holds one quote character, the one that opened the literal,
\* the next occurrence of that character returns the lexer to
\* SGML_DECLARATION, and a `>' after it delivers onSgmlDeclaration with the
\* declaration, literal included, and returns the lexer to TEXT.
QuotedLiteralEnds ==
  (p.state = "SGML_DECLARATION_QUOTED" /\ p.error.isNull /\ ~p.isEnded
     /\ Len(quotesOf(p.sgmlDeclaration)) = 1)
    => LET quote == quotesOf(p.sgmlDeclaration)[1]
           closed(r) ==
             /\ r.thrown = "none"
             /\ r.state = "SGML_DECLARATION"
             /\ r.sgmlDeclaration = p.sgmlDeclaration \o <<"v", quote>>
           ended(r) ==
             /\ r.thrown = "none"
             /\ r.state = "TEXT"
             /\ r.events = Append(p.events,
                                  [Event("onSgmlDeclaration")
                                     EXCEPT !.value = p.sgmlDeclaration \o <<"v", quote>>])
       IN /\ closed(write(p, <<"v", quote>>, 0))
          /\ ended(write(p, <<"v", quote, ">">>, 0))

(***************************************************************************)
(* C39: isRootClosed and the tag stack.                                    *)
(***************************************************************************)
\* C39: whenever an element is open, isRootClosed is false, and a character
\* of text read inside the element is accepted without the diagnostic
\* "Text data outside of root node.".
RootClosedOnlyWhenEmpty ==
  p.tags # <<>> =>
    /\ ~p.isRootClosed
    /\ (p.state = "TEXT" /\ p.error.isNull /\ ~p.isEnded) =>
         \A n \in 1..Len(eventsOfWrite(p, <<"x">>)) :
           eventsOfWrite(p, <<"x">>)[n].message # "Text data outside of root node."

(***************************************************************************)
(* C40: in lenient mode, once the root element has been closed, no call    *)
(* but reset() delivers a markup event (onOpenTagStart, onOpenTag,         *)
(* onCloseTag, onComment, onProcessingInstruction, onOpenCdata): every     *)
(* later "<" is kept as character data and the lexer is in TEXT or         *)
(* TEXT_ENTITY at the end of every call until reset.                       *)
(***************************************************************************)
MarkupEvents ==
  {"onOpenTagStart", "onOpenTag", "onCloseTag", "onComment",
   "onProcessingInstruction", "onOpenCdata"}

rootClosedLenient == ~options.strict /\ p.hasSeenRoot /\ p.isRootClosed

LenientAfterRoot ==
  /\ [](rootClosedLenient => p.state \in {"TEXT", "TEXT_ENTITY"})
  /\ [][rootClosedLenient =>
          \A n \in 1..Len(eventsAfter(p'.events, Len(p.events))) :
            eventsAfter(p'.events, Len(p.events))[n].type \notin MarkupEvents]_vars

\* a "<" written after the close of the root is held as character data
LenientAfterRootWitness ==
  /\ rootClosedLenient
  /\ lastCall.op = "write"
  /\ \E n \in 1..Len(p.textNode) : p.textNode[n] = "<"
  /\ p.state = "TEXT"
====
